---- MODULE Spec2Model ----
(***************************************************************************)
(* Settlement and commission distribution engine of get_pretty_advantages  *)
(* (app/routes/settlements.py): period lifecycle, generation, payments,    *)
(* funding / unlock cascade, ban deduction and the wallet ledger.  Every   *)
(* handler is one action: it runs in one database transaction that either  *)
(* commits or is rolled back as a whole.                                   *)
(***************************************************************************)
EXTENDS Integers, Sequences, FiniteSets, TLC

(* ---------------- bounds of the model ---------------- *)
MaxPeriods == 2
MaxPayments == 2
MaxReports == 1
MaxDay == 2
MaxNow == 2
MaxTxns == 2

(* ---------------- program constants ---------------- *)
NULL == 0
BpsBase == 10000

OPEN == 0
PAYING == 1
CLOSED == 2

UNPAID == 0
PARTIAL == 1
PAID == 2
OVERDUE == 3

SUBMITTED == 0
CONFIRMED == 1
REJECTED == 2

APPROVED == 1

UNFUNDED == 0
FUNDED == 1

(* ---------------- inputs ---------------- *)
Users == {1, 2, 3}

\* user_referrals as written at registration: 1 was invited by 2, 2 by 3.
ReferralRows ==
    { [user_id |-> 1, inviter_level1 |-> 2, inviter_level2 |-> 3],
      [user_id |-> 2, inviter_level1 |-> 3, inviter_level2 |-> NULL],
      [user_id |-> 3, inviter_level1 |-> NULL, inviter_level2 |-> NULL] }

\* earning_records rows (one per env, day and account).
EarningRows ==
    { [env_id |-> 1, user_id |-> 1, stat_date |-> 1, coins_total |-> 15],
      [env_id |-> 2, user_id |-> 1, stat_date |-> 1, coins_total |-> 10],
      [env_id |-> 3, user_id |-> 2, stat_date |-> 1, coins_total |-> 13],
      [env_id |-> 1, user_id |-> 1, stat_date |-> 2, coins_total |-> 13],
      [env_id |-> 3, user_id |-> 2, stat_date |-> 2, coins_total |-> 0],
      [env_id |-> 4, user_id |-> 3, stat_date |-> 2, coins_total |-> 13] }

\* request bodies accepted by SettlementPeriodCreate that the admin sends.
PeriodRequests ==
    { [period_start |-> 1, period_end |-> 1, pay_start |-> 1, pay_end |-> 1,
       host_bps |-> 6000, collect_bps |-> 4000, l1_bps |-> 2000, l2_bps |-> 400,
       status |-> OPEN],
      [period_start |-> 2, period_end |-> 2, pay_start |-> 2, pay_end |-> 2,
       host_bps |-> 6000, collect_bps |-> 4000, l1_bps |-> 2000, l2_bps |-> 400,
       status |-> PAYING] }

\* (user, inviter named by the invite code) of the PUT /api/account/inviter requests
BindRequests == { [user_id |-> 1, inviter |-> 3], [user_id |-> 1, inviter |-> 1] }

PayAmounts == {5, 10}
BanAmounts == {15}

VARIABLES
    periods,            \* settlement_periods rows
    next_period_id,     \* AUTO_INCREMENT of settlement_periods
    user_referrals,     \* user_referrals rows
    snapshots,          \* settlement_referral_snapshot rows
    incomes,            \* settlement_user_income rows
    payables,           \* settlement_user_payable rows
    commissions,        \* settlement_commissions rows
    payments,           \* settlement_payments rows, payment_id = index
    reports,            \* settlement_ban_reports rows, report_id = index
    wallet_accounts,    \* wallet_accounts rows
    wallet_ledger,      \* wallet_ledger rows, ledger_id = index
    today,              \* date.today()
    now,                \* datetime.now() truncated to the second
    txns                \* the open database transactions of the requests in flight

vars == << periods, next_period_id, user_referrals, snapshots, incomes, payables,
           commissions, payments, reports, wallet_accounts, wallet_ledger, today, now,
           txns >>

(* ---------------- helpers ---------------- *)
Min(S) == CHOOSE x \in S : \A y \in S : x <= y

RECURSIVE SetToSeq(_)
SetToSeq(S) == IF S = {} THEN << >>
               ELSE LET m == Min(S) IN << m >> \o SetToSeq(S \ {m})

RECURSIVE SumCoinsTotal(_)
SumCoinsTotal(rows) ==
    IF rows = {} THEN 0
    ELSE LET r == CHOOSE x \in rows : TRUE
         IN r.coins_total + SumCoinsTotal(rows \ {r})

RECURSIVE SumAmountCoins(_)
SumAmountCoins(rows) ==
    IF rows = {} THEN 0
    ELSE LET r == CHOOSE x \in rows : TRUE
         IN r.amount_coins + SumAmountCoins(rows \ {r})

PeriodRows(pid) == { p \in periods : p.period_id = pid }
PayableRows(rows, pid, uid) == { y \in rows : y.period_id = pid /\ y.user_id = uid }
IncomeRows(pid, uid) == { y \in incomes : y.period_id = pid /\ y.user_id = uid }
CommKey(c) == << c.period_id, c.source_user_id, c.beneficiary_user_id, c.level >>

(* ---------------- initial state: empty settlement tables ---------------- *)
(* ---------------- database transactions ---------------- *)
TxnIds == 1..MaxTxns

\* a request slot without a transaction. A transaction holds its row locks (locks), the
\* changes of its ORM objects, which reach the database at commit (orm_*; the sessions
\* are created with autoflush=False), and the rows its SQL statements have written or
\* inserted, not yet committed (raw_*)
IdleTxn ==
    [op |-> "idle", arg |-> 0, period_id |-> 0, source_user_id |-> 0, pc |-> "idle",
     locks |-> {}, prev_status |-> 0, todo |-> << >>,
     orm_payments |-> {}, orm_payables |-> {}, orm_incomes |-> {}, orm_reports |-> {},
     raw_comms |-> {}, raw_wallet |-> {}, raw_ledger |-> << >>, read_view |-> {}]

Init ==
    /\ txns = [t \in TxnIds |-> IdleTxn]
    /\ periods = {}
    /\ next_period_id = 1
    /\ user_referrals = ReferralRows
    /\ snapshots = {}
    /\ incomes = {}
    /\ payables = {}
    /\ commissions = {}
    /\ payments = << >>
    /\ reports = << >>
    /\ wallet_accounts = {}
    /\ wallet_ledger = << >>
    /\ today = 1
    /\ now = 1

(* ---------------- period management ---------------- *)
\* bug variant: l1_bps + l2_bps is not compared with collect_bps
_validate_period_create_loose(data) ==
    /\ data.period_start <= data.period_end
    /\ data.pay_start <= data.pay_end
    /\ 0 <= data.host_bps /\ data.host_bps <= BpsBase
    /\ 0 <= data.collect_bps /\ data.collect_bps <= BpsBase
    /\ data.host_bps + data.collect_bps = BpsBase
    /\ 0 <= data.l1_bps /\ data.l1_bps <= BpsBase
    /\ 0 <= data.l2_bps /\ data.l2_bps <= BpsBase
    /\ data.status \in {OPEN, PAYING, CLOSED}

_validate_period_create(data) ==
    /\ data.period_start <= data.period_end
    /\ data.pay_start <= data.pay_end
    /\ 0 <= data.host_bps /\ data.host_bps <= BpsBase
    /\ 0 <= data.collect_bps /\ data.collect_bps <= BpsBase
    /\ data.host_bps + data.collect_bps = BpsBase
    /\ 0 <= data.l1_bps /\ data.l1_bps <= BpsBase
    /\ 0 <= data.l2_bps /\ data.l2_bps <= BpsBase
    /\ data.l1_bps + data.l2_bps <= data.collect_bps
    /\ data.status \in {OPEN, PAYING, CLOSED}

\* bug variant: the existing window is not looked up
create_settlement_period_dup(data) ==
    /\ next_period_id <= MaxPeriods
    /\ _validate_period_create(data)
    /\ periods' = periods \cup
          { [period_id |-> next_period_id,
             period_start |-> data.period_start, period_end |-> data.period_end,
             pay_start |-> data.pay_start, pay_end |-> data.pay_end,
             host_bps |-> data.host_bps, collect_bps |-> data.collect_bps,
             l1_bps |-> data.l1_bps, l2_bps |-> data.l2_bps,
             status |-> data.status, is_active |-> 0] }
    /\ next_period_id' = next_period_id + 1
    /\ UNCHANGED << user_referrals, snapshots, incomes, payables, commissions, payments,
                    reports, wallet_accounts, wallet_ledger, today, now, txns >>

create_settlement_period(data) ==
    /\ next_period_id <= MaxPeriods
    /\ _validate_period_create(data)
    /\ ~ \E e \in periods : e.period_start = data.period_start /\ e.period_end = data.period_end
    /\ periods' = periods \cup
          { [period_id |-> next_period_id,
             period_start |-> data.period_start, period_end |-> data.period_end,
             pay_start |-> data.pay_start, pay_end |-> data.pay_end,
             host_bps |-> data.host_bps, collect_bps |-> data.collect_bps,
             l1_bps |-> data.l1_bps, l2_bps |-> data.l2_bps,
             status |-> data.status, is_active |-> 0] }
    /\ next_period_id' = next_period_id + 1
    /\ UNCHANGED << user_referrals, snapshots, incomes, payables, commissions, payments,
                    reports, wallet_accounts, wallet_ledger, today, now, txns >>

(* ---------------- generation ---------------- *)
\* the HTTP status create_settlement_period answers with
create_settlement_period_status(data) ==
    IF ~ _validate_period_create(data) THEN 400
    ELSE IF \E e \in periods : e.period_start = data.period_start
                               /\ e.period_end = data.period_end
         THEN 200
         ELSE 201

\* bug variant: rounds the share up instead of down
BpsShareCeil(gross, bps) == (gross * bps + BpsBase - 1) \div BpsBase

\* the bps split written as SQL "(SUM(...) * bps) DIV 10000" and Python "(g * bps) // 10000"
BpsShare(gross, bps) == (gross * bps) \div BpsBase

\* rows of the INSERT ... SELECT into settlement_referral_snapshot
SnapshotInsertRows(pid) ==
    { [period_id |-> pid, user_id |-> r.user_id,
       inviter_level1 |-> r.inviter_level1, inviter_level2 |-> r.inviter_level2]
      : r \in user_referrals }

\* the select list of the INSERT ... SELECT into settlement_user_income, for one group
IncomeSelectRow(p, uid, gross, l1, l2) ==
    LET c1 == IF l1 = NULL THEN 0 ELSE BpsShare(gross, p.l1_bps)
        c2 == IF l2 = NULL THEN 0 ELSE BpsShare(gross, p.l2_bps)
    IN [period_id |-> p.period_id, user_id |-> uid,
        gross_coins |-> gross,
        self_keep_coins |-> BpsShare(gross, p.host_bps),
        self_payable_coins |-> BpsShare(gross, p.collect_bps),
        l1_user_id |-> l1, l2_user_id |-> l2,
        l1_commission_coins |-> c1, l2_commission_coins |-> c2,
        platform_retain_coins |-> BpsShare(gross, p.collect_bps) - c1 - c2]

\* rows of the INSERT ... SELECT into settlement_user_income, reading the snapshot rows snaps
IncomeInsertRows(p, snaps) ==
    LET in_window == { er \in EarningRows :
                          /\ er.stat_date >= p.period_start
                          /\ er.stat_date <= p.period_end
                          /\ er.user_id # NULL }
        uids == { er.user_id : er \in in_window }
        Row(uid, l1, l2) ==
            IncomeSelectRow(p, uid, SumCoinsTotal({ er \in in_window : er.user_id = uid }),
                            l1, l2)
    IN UNION { LET s == { x \in snaps : x.period_id = p.period_id /\ x.user_id = uid }
               IN IF s = {} THEN { Row(uid, NULL, NULL) }
                  ELSE { Row(uid, x.inviter_level1, x.inviter_level2) : x \in s }
               : uid \in uids }

\* bug variant: also writes the rows whose commission is 0
CommissionInsertRowsAll(pid, incs) ==
    { [period_id |-> pid, source_user_id |-> i.user_id,
       beneficiary_user_id |-> i.l1_user_id, level |-> 1,
       amount_coins |-> i.l1_commission_coins,
       funding_status |-> UNFUNDED, funded_at |-> NULL, is_unlocked |-> 0]
      : i \in { x \in incs : x.period_id = pid /\ x.l1_user_id # NULL } }
    \cup
    { [period_id |-> pid, source_user_id |-> i.user_id,
       beneficiary_user_id |-> i.l2_user_id, level |-> 2,
       amount_coins |-> i.l2_commission_coins,
       funding_status |-> UNFUNDED, funded_at |-> NULL, is_unlocked |-> 0]
      : i \in { x \in incs : x.period_id = pid /\ x.l2_user_id # NULL } }

\* rows of the two INSERT ... SELECT into settlement_commissions, reading income rows incs
CommissionInsertRows(pid, incs) ==
    { [period_id |-> pid, source_user_id |-> i.user_id,
       beneficiary_user_id |-> i.l1_user_id, level |-> 1,
       amount_coins |-> i.l1_commission_coins,
       funding_status |-> UNFUNDED, funded_at |-> NULL, is_unlocked |-> 0]
      : i \in { x \in incs : x.period_id = pid /\ x.l1_user_id # NULL
                              /\ x.l1_commission_coins > 0 } }
    \cup
    { [period_id |-> pid, source_user_id |-> i.user_id,
       beneficiary_user_id |-> i.l2_user_id, level |-> 2,
       amount_coins |-> i.l2_commission_coins,
       funding_status |-> UNFUNDED, funded_at |-> NULL, is_unlocked |-> 0]
      : i \in { x \in incs : x.period_id = pid /\ x.l2_user_id # NULL
                              /\ x.l2_commission_coins > 0 } }

\* bug variant: the payable is due the kept share instead of the payable share
PayableInsertRowsKeep(pid, incs) ==
    { [period_id |-> pid, user_id |-> i.user_id,
       amount_due_coins |-> i.self_keep_coins, amount_paid_coins |-> 0,
       status |-> UNPAID, paid_at |-> NULL]
      : i \in { x \in incs : x.period_id = pid } }

\* rows of the INSERT ... SELECT into settlement_user_payable
PayableInsertRows(pid, incs) ==
    { [period_id |-> pid, user_id |-> i.user_id,
       amount_due_coins |-> i.self_payable_coins, amount_paid_coins |-> 0,
       status |-> UNPAID, paid_at |-> NULL]
      : i \in { x \in incs : x.period_id = pid } }

\* bug variant: every statement is committed on its own and the run stops after the
\* income insert, so the payable and commission rows and the status are never written
generate_settlement_stopping_midway(pid, regenerate) ==
    \E p \in PeriodRows(pid) :
      LET has_rows == \/ \E x \in snapshots : x.period_id = pid
                      \/ \E x \in incomes : x.period_id = pid
                      \/ \E x \in payables : x.period_id = pid
                      \/ \E x \in commissions : x.period_id = pid
          snaps1 == snapshots \cup SnapshotInsertRows(pid)
      IN /\ ~ has_rows
         /\ snapshots' = snaps1
         /\ incomes' = incomes \cup IncomeInsertRows(p, snaps1)
         /\ UNCHANGED << periods, next_period_id, user_referrals, payables, commissions,
                         payments, reports, wallet_accounts, wallet_ledger, today, now, txns >>

\* bug variant: no refusal; the period's rows are cleared and written again
generate_settlement_replacing(pid, regenerate) ==
    \E p \in PeriodRows(pid) :
      LET snaps1 == { x \in snapshots : x.period_id # pid } \cup SnapshotInsertRows(pid)
          incs1 == { x \in incomes : x.period_id # pid } \cup IncomeInsertRows(p, snaps1)
      IN /\ snapshots' = snaps1
         /\ incomes' = incs1
         /\ commissions' = { x \in commissions : x.period_id # pid }
                              \cup CommissionInsertRows(pid, incs1)
         /\ payables' = { x \in payables : x.period_id # pid }
                           \cup PayableInsertRows(pid, incs1)
         /\ periods' = (periods \ {p}) \cup { [p EXCEPT !.status = PAYING] }
         /\ UNCHANGED << next_period_id, user_referrals, payments, reports,
                         wallet_accounts, wallet_ledger, today, now, txns >>

generate_settlement_for_period(pid, regenerate) ==
    \E p \in PeriodRows(pid) :
      LET has_snapshot == \E x \in snapshots : x.period_id = pid
          has_income == \E x \in incomes : x.period_id = pid
          has_payable == \E x \in payables : x.period_id = pid
          has_commissions == \E x \in commissions : x.period_id = pid
          any_payment == \E i \in 1..Len(payments) : payments[i].period_id = pid
          new_snaps == SnapshotInsertRows(pid)
          snaps1 == snapshots \cup new_snaps
          new_incs == IncomeInsertRows(p, snaps1)
          incs1 == incomes \cup new_incs
          new_comms == CommissionInsertRows(pid, incs1)
          new_pays == PayableInsertRows(pid, incs1)
          \* a duplicate primary key makes the INSERT fail and the handler roll back
          dup_snap == \E a \in new_snaps : \E b \in snapshots :
                          a.period_id = b.period_id /\ a.user_id = b.user_id
          dup_inc == \E a \in new_incs : \E b \in incomes :
                          a.period_id = b.period_id /\ a.user_id = b.user_id
          dup_comm == \E a \in new_comms : \E b \in commissions : CommKey(a) = CommKey(b)
          dup_pay == \E a \in new_pays : \E b \in payables :
                          a.period_id = b.period_id /\ a.user_id = b.user_id
      IN /\ ~ (~regenerate /\ (has_snapshot \/ has_income \/ has_payable \/ has_commissions))
         /\ ~ (regenerate /\ any_payment)
         /\ ~ (dup_snap \/ dup_inc \/ dup_comm \/ dup_pay)
         /\ snapshots' = snaps1
         /\ incomes' = incs1
         /\ commissions' = commissions \cup new_comms
         /\ payables' = payables \cup new_pays
         /\ periods' = (periods \ {p}) \cup { [p EXCEPT !.status = PAYING] }
         /\ UNCHANGED << next_period_id, user_referrals, payments, reports,
                         wallet_accounts, wallet_ledger, today, now, txns >>

\* bug variant: REPLACE INTO, which rewrites the rows already present
InsertReplace(comms, cand) ==
    { b \in comms : ~ \E a \in cand : CommKey(a) = CommKey(b) } \cup cand

\* INSERT IGNORE skips the rows whose primary key is already present
InsertIgnore(comms, cand) ==
    comms \cup { a \in cand : ~ \E b \in comms : CommKey(a) = CommKey(b) }

generate_commissions_for_period(pid) ==
    /\ PeriodRows(pid) # {}
    /\ commissions' = InsertIgnore(commissions, CommissionInsertRows(pid, incomes))
    /\ UNCHANGED << periods, next_period_id, user_referrals, snapshots, incomes, payables,
                    payments, reports, wallet_accounts, wallet_ledger, today, now, txns >>


\* bug variant: the other periods keep their flag
activate_without_clearing(pid) ==
    /\ PeriodRows(pid) # {}
    /\ periods' = { [p EXCEPT !.is_active = IF p.period_id = pid THEN 1 ELSE @] : p \in periods }
    /\ UNCHANGED << next_period_id, user_referrals, snapshots, incomes, payables, commissions,
                    payments, reports, wallet_accounts, wallet_ledger, today, now, txns >>

activate_settlement_period(pid) ==
    /\ PeriodRows(pid) # {}
    /\ periods' = { [p EXCEPT !.is_active = IF p.period_id = pid THEN 1 ELSE 0] : p \in periods }
    /\ UNCHANGED << next_period_id, user_referrals, snapshots, incomes, payables, commissions,
                    payments, reports, wallet_accounts, wallet_ledger, today, now, txns >>

\* bug variant: only confirmed payments stand in the way
delete_counting_confirmed_only(pid) ==
    /\ PeriodRows(pid) # {}
    /\ ~ \E i \in 1..Len(payments) : /\ payments[i].period_id = pid
                                     /\ payments[i].status = CONFIRMED
    /\ ~ \E i \in 1..Len(wallet_ledger) : wallet_ledger[i].period_id = pid
    /\ commissions' = { c \in commissions : c.period_id # pid }
    /\ snapshots' = { x \in snapshots : x.period_id # pid }
    /\ incomes' = { x \in incomes : x.period_id # pid }
    /\ payables' = { x \in payables : x.period_id # pid }
    /\ periods' = { p \in periods : p.period_id # pid }
    /\ UNCHANGED << next_period_id, user_referrals, payments, reports,
                    wallet_accounts, wallet_ledger, today, now, txns >>

delete_settlement_period(pid) ==
    /\ PeriodRows(pid) # {}
    /\ ~ \E i \in 1..Len(payments) : payments[i].period_id = pid
    /\ ~ \E i \in 1..Len(wallet_ledger) : wallet_ledger[i].period_id = pid
    /\ commissions' = { c \in commissions : c.period_id # pid }
    /\ snapshots' = { x \in snapshots : x.period_id # pid }
    /\ incomes' = { x \in incomes : x.period_id # pid }
    /\ payables' = { x \in payables : x.period_id # pid }
    /\ periods' = { p \in periods : p.period_id # pid }
    /\ UNCHANGED << next_period_id, user_referrals, payments, reports,
                    wallet_accounts, wallet_ledger, today, now, txns >>

\* None when there is no row; the rows are records, so "no period" is the empty set
_get_current_period(user_id) ==
    LET active == { p \in periods : p.is_active = 1 }
        unpaid == { p \in periods :
                      /\ p.status \in {OPEN, PAYING}
                      /\ \E y \in payables : /\ y.period_id = p.period_id
                                             /\ y.user_id = user_id
                                             /\ y.status # PAID }
        open == { p \in periods : p.status \in {OPEN, PAYING} }
        Newest(S) == { p \in S : \A q \in S : q.period_id <= p.period_id }
    IN IF active # {} THEN { CHOOSE p \in active : TRUE }
       ELSE IF user_id # NULL /\ unpaid # {} THEN Newest(unpaid)
       ELSE Newest(open)

\* bug variant: the pay window is never looked at
_assert_in_pay_window_open(period, day) == TRUE

_assert_in_pay_window(period, day) == ~ (day < period.pay_start \/ day > period.pay_end)

(* ---------------- payments ---------------- *)
create_settlement_payment(uid, pid, amount) ==
    /\ Len(payments) < MaxPayments
    /\ amount >= 1
    /\ \E period \in (IF pid = NULL THEN _get_current_period(NULL) ELSE PeriodRows(pid)) :
         /\ _assert_in_pay_window(period, today)
         /\ \E payable \in PayableRows(payables, period.period_id, uid) :
              LET remaining == payable.amount_due_coins - payable.amount_paid_coins
              IN /\ ~ (remaining <= 0)
                 /\ ~ (amount > remaining)
         /\ payments' = Append(payments,
               [period_id |-> period.period_id, payer_user_id |-> uid,
                amount_coins |-> amount, status |-> SUBMITTED])
    /\ UNCHANGED << periods, next_period_id, user_referrals, snapshots, incomes, payables,
                    commissions, reports, wallet_accounts, wallet_ledger, today, now, txns >>

reject_settlement_payment(payment_id) ==
    /\ payment_id \in 1..Len(payments)
    /\ payments[payment_id].status = SUBMITTED
    /\ payments' = [payments EXCEPT ![payment_id].status = REJECTED]
    /\ UNCHANGED << periods, next_period_id, user_referrals, snapshots, incomes, payables,
                    commissions, reports, wallet_accounts, wallet_ledger, today, now, txns >>

(* ---------------- funding and unlock cascade ---------------- *)
\* bug variant: the duplicate-key branch overwrites the balance instead of adding to it
WalletUpsertOverwrite(accounts, uid, d_available, d_locked) ==
    IF \E a \in accounts : a.user_id = uid
    THEN { IF a.user_id = uid
           THEN [a EXCEPT !.available_coins = d_available, !.locked_coins = d_locked]
           ELSE a : a \in accounts }
    ELSE accounts \cup { [user_id |-> uid, available_coins |-> d_available,
                          locked_coins |-> d_locked] }

\* ON DUPLICATE KEY UPDATE on wallet_accounts, and the unlock's balance move
WalletUpsert(accounts, uid, d_available, d_locked) ==
    IF \E a \in accounts : a.user_id = uid
    THEN { IF a.user_id = uid
           THEN [a EXCEPT !.available_coins = @ + d_available, !.locked_coins = @ + d_locked]
           ELSE a : a \in accounts }
    ELSE accounts \cup { [user_id |-> uid, available_coins |-> d_available,
                          locked_coins |-> d_locked] }

\* the rows "funding_status = 1 AND funded_at = :now" of (period, source)
FundedBatch(comms, pid, src, t) ==
    { c \in comms : /\ c.period_id = pid /\ c.source_user_id = src
                    /\ c.funding_status = FUNDED /\ c.funded_at = t }

\* bug variant: the UPDATE has no source_user_id condition
FundUpdateWholePeriod(comms, pid, src, t) ==
    { IF c.period_id = pid /\ c.funding_status = UNFUNDED
      THEN [c EXCEPT !.funding_status = FUNDED, !.funded_at = t]
      ELSE c : c \in comms }

\* UPDATE settlement_commissions SET funding_status = 1, funded_at = :now ...
FundUpdate(comms, pid, src, t) ==
    { IF c.period_id = pid /\ c.source_user_id = src /\ c.funding_status = UNFUNDED
      THEN [c EXCEPT !.funding_status = FUNDED, !.funded_at = t]
      ELSE c : c \in comms }

RECURSIVE LockedInEntries(_, _, _, _)
LockedInEntries(batch, pid, src, bens) ==
    IF bens = << >> THEN << >>
    ELSE << [user_id |-> Head(bens), period_id |-> pid,
             entry_type |-> "COMMISSION_LOCKED_IN",
             delta_available_coins |-> 0,
             delta_locked_coins |->
                 SumAmountCoins({ c \in batch : c.beneficiary_user_id = Head(bens) }),
             ref_source_user_id |-> src] >>
         \o LockedInEntries(batch, pid, src, Tail(bens))

RECURSIVE LockedInAccounts(_, _, _)
LockedInAccounts(accounts, batch, bens) ==
    IF bens = << >> THEN accounts
    ELSE LockedInAccounts(
            WalletUpsert(accounts, Head(bens), 0,
                SumAmountCoins({ c \in batch : c.beneficiary_user_id = Head(bens) })),
            batch, Tail(bens))

\* the three statements of the funding stage, on the rows the database holds
FundingCascade(st, pid, src, t) ==
    LET comms1 == FundUpdate(st.commissions, pid, src, t)
        batch == FundedBatch(comms1, pid, src, t)
        bens == SetToSeq({ c.beneficiary_user_id : c \in batch })
    IN [commissions |-> comms1,
        wallet_ledger |-> st.wallet_ledger \o LockedInEntries(batch, pid, src, bens),
        wallet_accounts |-> LockedInAccounts(st.wallet_accounts, batch, bens)]

\* bug variant: unlocks without looking at the beneficiary's own payable
unlock_ignoring_payable(st, pays, pid, bid) ==
    LET rows == { c \in st.commissions : /\ c.period_id = pid
                                         /\ c.beneficiary_user_id = bid
                                         /\ c.funding_status = FUNDED
                                         /\ c.is_unlocked = 0 }
        total == SumAmountCoins(rows)
    IN IF rows = {}
       THEN st
       ELSE [commissions |-> { IF c \in rows THEN [c EXCEPT !.is_unlocked = 1] ELSE c
                               : c \in st.commissions },
             wallet_ledger |-> Append(st.wallet_ledger,
                 [user_id |-> bid, period_id |-> pid,
                  entry_type |-> "COMMISSION_UNLOCK",
                  delta_available_coins |-> total,
                  delta_locked_coins |-> 0 - total,
                  ref_source_user_id |-> NULL]),
             wallet_accounts |-> WalletUpsert(st.wallet_accounts, bid, total, 0 - total)]

\* bug variant: credits the balance but leaves the rows marked locked
unlock_without_marking(st, pays, pid, bid) ==
    LET own == PayableRows(pays, pid, bid)
        rows == { c \in st.commissions : /\ c.period_id = pid
                                         /\ c.beneficiary_user_id = bid
                                         /\ c.funding_status = FUNDED
                                         /\ c.is_unlocked = 0 }
        total == SumAmountCoins(rows)
    IN IF own = {} \/ (\E y \in own : y.status # PAID) \/ rows = {}
       THEN st
       ELSE [commissions |-> st.commissions,
             wallet_ledger |-> Append(st.wallet_ledger,
                 [user_id |-> bid, period_id |-> pid,
                  entry_type |-> "COMMISSION_UNLOCK",
                  delta_available_coins |-> total,
                  delta_locked_coins |-> 0 - total,
                  ref_source_user_id |-> NULL]),
             wallet_accounts |-> WalletUpsert(st.wallet_accounts, bid, total, 0 - total)]

\* app/services/settlement_unlock.py, as section 4.6 describes it
unlock_commissions_for_beneficiary(st, pays, pid, bid) ==
    LET own == PayableRows(pays, pid, bid)
        rows == { c \in st.commissions : /\ c.period_id = pid
                                         /\ c.beneficiary_user_id = bid
                                         /\ c.funding_status = FUNDED
                                         /\ c.is_unlocked = 0 }
        total == SumAmountCoins(rows)
    IN IF own = {} \/ (\E y \in own : y.status # PAID) \/ rows = {}
       THEN st
       ELSE [commissions |-> { IF c \in rows THEN [c EXCEPT !.is_unlocked = 1] ELSE c
                               : c \in st.commissions },
             wallet_ledger |-> Append(st.wallet_ledger,
                 [user_id |-> bid, period_id |-> pid,
                  entry_type |-> "COMMISSION_UNLOCK",
                  delta_available_coins |-> total,
                  delta_locked_coins |-> 0 - total,
                  ref_source_user_id |-> NULL]),
             wallet_accounts |-> WalletUpsert(st.wallet_accounts, bid, total, 0 - total)]

RECURSIVE UnlockEach(_, _, _, _)
UnlockEach(st, pays, pid, bids) ==
    IF bids = << >> THEN st
    ELSE UnlockEach(
            IF Head(bids) > 0
            THEN unlock_commissions_for_beneficiary(st, pays, pid, Head(bids))
            ELSE st,
            pays, pid, Tail(bids))

\* bug variant: the payer's own commissions are not looked at
UnlockAfterFundingNoPayer(st, pays, pid, src, t) ==
    LET bens == SetToSeq({ c.beneficiary_user_id : c \in FundedBatch(st.commissions, pid, src, t) })
    IN UnlockEach(st, pays, pid, bens)

\* stage 3 of the handlers: the beneficiaries of the batch, then the payer
UnlockAfterFunding(st, pays, pid, src, t) ==
    LET bens == SetToSeq({ c.beneficiary_user_id : c \in FundedBatch(st.commissions, pid, src, t) })
    IN unlock_commissions_for_beneficiary(UnlockEach(st, pays, pid, bens), pays, pid, src)

Tables == [commissions |-> commissions, wallet_ledger |-> wallet_ledger,
           wallet_accounts |-> wallet_accounts]

\* the status branch of confirm_settlement_payment
ConfirmStatus(due, paid_after, day, pay_end) ==
    IF due <= 0 THEN PAID
    ELSE IF paid_after >= due THEN PAID
    ELSE IF day > pay_end THEN OVERDUE
    ELSE IF paid_after > 0 THEN PARTIAL ELSE UNPAID

\* bug variant: only an already confirmed payment is refused
PaymentNotConfirmed(payment) == payment.status # CONFIRMED

\* "if int(payment.status) != 0: raise HTTPException(400)"
PaymentIsSubmitted(payment) == payment.status = SUBMITTED

\* bug variant: the amount replaces the running total
PaidAfterOverwrite(paid_before, amount_coins) == amount_coins

\* paid_after = paid_before + int(payment.amount_coins or 0)
PaidAfter(paid_before, amount_coins) == paid_before + amount_coins

\* bug variant: every confirmation funds, whatever the payable's status
just_paid_always(prev_status, status) == TRUE

\* just_paid = prev_payable_status != 2 and int(payable.status or 0) == 2
just_paid(prev_status, status) == prev_status # PAID /\ status = PAID

\* bug variant: paid_at is stamped every time the status is computed as PAID
PaidAtOverwrite(paid_at, status, t) == IF status = PAID THEN t ELSE paid_at

\* "payable.status = 2; if payable.paid_at is None: payable.paid_at = now"
PaidAt(paid_at, status, t) == IF status = PAID /\ paid_at = NULL THEN t ELSE paid_at

\* the payable row as the handler leaves it in the session
ConfirmedPayable(payment, payable, period) ==
    LET paid_after == PaidAfter(payable.amount_paid_coins, payment.amount_coins)
        status == ConfirmStatus(payable.amount_due_coins, paid_after, today, period.pay_end)
    IN [payable EXCEPT
          !.amount_paid_coins = paid_after,
          !.status = status,
          !.paid_at = PaidAt(payable.paid_at, status, now)]

confirm_settlement_payment(payment_id) ==
    /\ payment_id \in 1..Len(payments)
    /\ PaymentIsSubmitted(payments[payment_id])
    /\ LET payment == payments[payment_id]
       IN \E payable \in PayableRows(payables, payment.period_id, payment.payer_user_id) :
          \E period \in PeriodRows(payment.period_id) :
            LET payable1 == ConfirmedPayable(payment, payable, period)
                pays1 == (payables \ {payable}) \cup {payable1}
                funded == FundingCascade(Tables, payment.period_id, payment.payer_user_id, now)
                final == IF just_paid(payable.status, payable1.status)
                         THEN UnlockAfterFunding(funded, pays1, payment.period_id,
                                                 payment.payer_user_id, now)
                         ELSE Tables
            IN /\ payments' = [payments EXCEPT ![payment_id].status = CONFIRMED]
               /\ payables' = pays1
               /\ commissions' = final.commissions
               /\ wallet_ledger' = final.wallet_ledger
               /\ wallet_accounts' = final.wallet_accounts
    /\ UNCHANGED << periods, next_period_id, user_referrals, snapshots, incomes,
                    reports, today, now, txns >>

\* POST /settlement-periods/{period_id}/unlock-commissions?beneficiary_user_id=
unlock_commissions(pid, bid) ==
    /\ PeriodRows(pid) # {}
    /\ LET everyone == SetToSeq({ c.beneficiary_user_id :
                                      c \in { x \in commissions : x.period_id = pid } })
           final == IF bid # NULL
                    THEN unlock_commissions_for_beneficiary(Tables, payables, pid, bid)
                    ELSE UnlockEach(Tables, payables, pid, everyone)
       IN /\ commissions' = final.commissions
          /\ wallet_ledger' = final.wallet_ledger
          /\ wallet_accounts' = final.wallet_accounts
    /\ UNCHANGED << periods, next_period_id, user_referrals, snapshots, incomes, payables,
                    payments, reports, today, now, txns >>


(* ---------------- ban reports ---------------- *)
create_settlement_ban_report(uid, pid, banned_coins) ==
    /\ Len(reports) < MaxReports
    /\ banned_coins >= 1
    /\ \E period \in (IF pid = NULL THEN _get_current_period(uid) ELSE PeriodRows(pid)) :
         /\ period.status # CLOSED
         /\ IncomeRows(period.period_id, uid) # {}
         /\ reports' = Append(reports,
               [period_id |-> period.period_id, user_id |-> uid,
                banned_coins |-> banned_coins, status |-> SUBMITTED, is_applied |-> 0,
                deduct_gross_coins |-> NULL, deduct_self_keep_coins |-> NULL,
                deduct_due_coins |-> NULL, deduct_l1_commission_coins |-> NULL,
                deduct_l2_commission_coins |-> NULL,
                deduct_platform_retain_coins |-> NULL])
    /\ UNCHANGED << periods, next_period_id, user_referrals, snapshots, incomes, payables,
                    commissions, payments, wallet_accounts, wallet_ledger, today, now, txns >>

approve_settlement_ban_report(report_id) ==
    /\ report_id \in 1..Len(reports)
    /\ reports[report_id].status = SUBMITTED
    /\ reports' = [reports EXCEPT ![report_id].status = APPROVED]
    /\ UNCHANGED << periods, next_period_id, user_referrals, snapshots, incomes, payables,
                    commissions, payments, wallet_accounts, wallet_ledger, today, now, txns >>

reject_settlement_ban_report(report_id) ==
    /\ report_id \in 1..Len(reports)
    /\ reports[report_id].status = SUBMITTED
    /\ reports' = [reports EXCEPT ![report_id].status = REJECTED]
    /\ UNCHANGED << periods, next_period_id, user_referrals, snapshots, incomes, payables,
                    commissions, payments, wallet_accounts, wallet_ledger, today, now, txns >>

\* bug variant: the pay window is not looked at
ApplyStatusNoOverdue(due, paid, day, pay_end) ==
    IF due <= 0 THEN PAID
    ELSE IF paid >= due THEN PAID
    ELSE IF paid > 0 THEN PARTIAL ELSE UNPAID

\* the status branch of apply_settlement_ban_report
ApplyStatus(due, paid, day, pay_end) ==
    IF due <= 0 THEN PAID
    ELSE IF paid >= due THEN PAID
    ELSE IF day > pay_end THEN OVERDUE
    ELSE IF paid > 0 THEN PARTIAL ELSE UNPAID

\* bug variant: is_applied is not looked at
ReportIsApproved(report) == report.status = APPROVED

\* the two refusals on the report itself: not approved (400), already applied (400)
ReportMayBeApplied(report) ==
    /\ ~ (report.status # APPROVED)
    /\ ~ (report.is_applied = 1)

\* bug variant: the deduction is applied whatever has been funded
FundingNotLookedAt(period_id, source_user_id) == FALSE

\* the two 409 refusals of apply_settlement_ban_report: a commission row of the source
\* that is funded or unlocked, a wallet_ledger row that names the source
FundingHasStarted(period_id, source_user_id) ==
    LET has_funded_commission ==
            \E c \in commissions : /\ c.period_id = period_id
                                   /\ c.source_user_id = source_user_id
                                   /\ (c.funding_status = FUNDED \/ c.is_unlocked = 1)
        has_wallet_ledger ==
            \E i \in 1..Len(wallet_ledger) :
                /\ wallet_ledger[i].period_id = period_id
                /\ wallet_ledger[i].ref_source_user_id = source_user_id
    IN has_funded_commission \/ has_wallet_ledger

\* bug variant: the level-1 commission is not taken out of the platform's share
NewPlatformKeepsL1(new_due, new_l1, new_l2) == new_due - new_l2

\* new_platform = new_due - new_l1 - new_l2
NewPlatform(new_due, new_l1, new_l2) == new_due - new_l1 - new_l2

\* bug variant: a commission row whose new amount is 0 is deleted
CommissionRewriteDropZero(comms, pid, src, ben, level, amount) ==
    IF ben = NULL THEN comms
    ELSE IF \E c \in comms : CommKey(c) = << pid, src, ben, level >>
    THEN IF amount > 0
         THEN { IF CommKey(c) = << pid, src, ben, level >>
                THEN [c EXCEPT !.amount_coins = amount] ELSE c : c \in comms }
         ELSE { c \in comms : CommKey(c) # << pid, src, ben, level >> }
    ELSE comms

\* comm.amount_coins = new / db.add(SettlementCommission(...)): session writes that reach
\* the database when the session is flushed (the sessions are created with autoflush=False)
CommissionRewrite(comms, pid, src, ben, level, amount) ==
    IF ben = NULL THEN comms
    ELSE IF \E c \in comms : CommKey(c) = << pid, src, ben, level >>
    THEN { IF CommKey(c) = << pid, src, ben, level >>
           THEN [c EXCEPT !.amount_coins = amount] ELSE c : c \in comms }
    ELSE IF amount > 0
    THEN comms \cup { [period_id |-> pid, source_user_id |-> src,
                       beneficiary_user_id |-> ben, level |-> level,
                       amount_coins |-> amount, funding_status |-> UNFUNDED,
                       funded_at |-> NULL, is_unlocked |-> 0] }
    ELSE comms

apply_settlement_ban_report(report_id) ==
    /\ report_id \in 1..Len(reports)
    /\ LET report == reports[report_id]
           period_id == report.period_id
           source_user_id == report.user_id
       IN /\ ReportMayBeApplied(report)
          /\ \E period \in PeriodRows(period_id) :
             \E income \in IncomeRows(period_id, source_user_id) :
             \E payable \in PayableRows(payables, period_id, source_user_id) :
               LET old_gross == income.gross_coins
                   banned == report.banned_coins
                   deduct_gross == IF banned < old_gross THEN banned ELSE old_gross
                   new_gross == old_gross - deduct_gross
                   new_self_keep == BpsShare(new_gross, period.host_bps)
                   new_due == BpsShare(new_gross, period.collect_bps)
                   has_l1 == income.l1_user_id # NULL
                   has_l2 == income.l2_user_id # NULL
                   new_l1 == IF has_l1 THEN BpsShare(new_gross, period.l1_bps) ELSE 0
                   new_l2 == IF has_l2 THEN BpsShare(new_gross, period.l2_bps) ELSE 0
                   new_platform == NewPlatform(new_due, new_l1, new_l2)
                   report1 == [report EXCEPT
                       !.deduct_gross_coins = old_gross - new_gross,
                       !.deduct_self_keep_coins = income.self_keep_coins - new_self_keep,
                       !.deduct_due_coins = income.self_payable_coins - new_due,
                       !.deduct_l1_commission_coins = income.l1_commission_coins - new_l1,
                       !.deduct_l2_commission_coins = income.l2_commission_coins - new_l2,
                       !.deduct_platform_retain_coins = income.platform_retain_coins - new_platform,
                       !.is_applied = 1]
                   income1 == [income EXCEPT
                       !.gross_coins = new_gross,
                       !.self_keep_coins = new_self_keep,
                       !.self_payable_coins = new_due,
                       !.l1_commission_coins = new_l1,
                       !.l2_commission_coins = new_l2,
                       !.platform_retain_coins = new_platform]
                   prev_status == payable.status
                   new_status == ApplyStatus(new_due, payable.amount_paid_coins, today,
                                             period.pay_end)
                   payable1 == [payable EXCEPT
                       !.amount_due_coins = new_due,
                       !.status = new_status,
                       !.paid_at = PaidAt(payable.paid_at, new_status, now)]
                   pays1 == (payables \ {payable}) \cup {payable1}
                   Flush(comms) ==
                       CommissionRewrite(
                           CommissionRewrite(comms, period_id, source_user_id,
                                             income.l1_user_id, 1, new_l1),
                           period_id, source_user_id, income.l2_user_id, 2, new_l2)
                   \* the funding statements are raw SQL: they read the commission rows
                   \* of the database, which the rewrite above has not reached yet
                   funded == FundingCascade(Tables, period_id, source_user_id, now)
                   flushed == [funded EXCEPT !.commissions = Flush(funded.commissions)]
                   final == IF just_paid(prev_status, new_status)
                            THEN UnlockAfterFunding(flushed, pays1, period_id,
                                                    source_user_id, now)
                            ELSE [Tables EXCEPT !.commissions = Flush(commissions)]
               IN /\ period.status # CLOSED
                  /\ ~ FundingHasStarted(period_id, source_user_id)
                  /\ ~ (old_gross <= 0)
                  /\ ~ (banned <= 0)
                  /\ reports' = [reports EXCEPT ![report_id] = report1]
                  /\ incomes' = (incomes \ {income}) \cup {income1}
                  /\ payables' = pays1
                  /\ commissions' = final.commissions
                  /\ wallet_ledger' = final.wallet_ledger
                  /\ wallet_accounts' = final.wallet_accounts
    /\ UNCHANGED << periods, next_period_id, user_referrals, snapshots, payments, today, now,
                    txns >>

(* ---------------- the environment: calendar and clock ---------------- *)
(* ---------------- the live referral graph ---------------- *)
\* users.inviter_id: every writer sets it together with user_referrals.inviter_level1
\* (registration, bind_inviter, update_inviter), so it is read from that row
inviter_id(uid) ==
    IF \E r \in user_referrals : r.user_id = uid
    THEN (CHOOSE r \in user_referrals : r.user_id = uid).inviter_level1
    ELSE NULL

\* bug variant: the rebinding is carried into the snapshots already written
update_inviter_retroactive(uid, inviter) ==
    /\ inviter \in Users
    /\ inviter # uid
    /\ inviter_id(inviter) # uid
    /\ user_referrals' = { r \in user_referrals : r.user_id # uid }
                            \cup { [user_id |-> uid, inviter_level1 |-> inviter,
                                    inviter_level2 |-> inviter_id(inviter)] }
    /\ snapshots' = { IF s.user_id = uid
                      THEN [s EXCEPT !.inviter_level1 = inviter,
                                     !.inviter_level2 = inviter_id(inviter)]
                      ELSE s : s \in snapshots }
    /\ UNCHANGED << periods, next_period_id, incomes, payables, commissions,
                    payments, reports, wallet_accounts, wallet_ledger, today, now, txns >>

update_inviter(uid, inviter) ==
    /\ inviter \in Users
    /\ inviter # uid
    /\ inviter_id(inviter) # uid
    /\ LET inviter_level2_id == inviter_id(inviter)
           row == [user_id |-> uid, inviter_level1 |-> inviter,
                   inviter_level2 |-> inviter_level2_id]
       IN user_referrals' = { r \in user_referrals : r.user_id # uid } \cup { row }
    /\ UNCHANGED << periods, next_period_id, snapshots, incomes, payables, commissions,
                    payments, reports, wallet_accounts, wallet_ledger, today, now, txns >>

NextDay ==
    /\ today < MaxDay
    /\ today' = today + 1
    /\ UNCHANGED << periods, next_period_id, user_referrals, snapshots, incomes, payables,
                    commissions, payments, reports, wallet_accounts, wallet_ledger, now, txns >>

NextSecond ==
    /\ now < MaxNow
    /\ now' = now + 1
    /\ UNCHANGED << periods, next_period_id, user_referrals, snapshots, incomes, payables,
                    commissions, payments, reports, wallet_accounts, wallet_ledger, today,
                    txns >>

PeriodIds == 1..MaxPeriods

Next ==
    \/ \E data \in PeriodRequests : create_settlement_period(data)
    \/ \E pid \in PeriodIds : activate_settlement_period(pid)
    \/ \E pid \in PeriodIds : delete_settlement_period(pid)
    \/ \E pid \in PeriodIds : \E regenerate \in BOOLEAN :
          generate_settlement_for_period(pid, regenerate)
    \/ \E pid \in PeriodIds : generate_commissions_for_period(pid)
    \/ \E uid \in Users : \E pid \in PeriodIds \cup {NULL} : \E amount \in PayAmounts :
          create_settlement_payment(uid, pid, amount)
    \/ \E i \in 1..MaxPayments : confirm_settlement_payment(i)
    \/ \E i \in 1..MaxPayments : reject_settlement_payment(i)
    \/ \E pid \in PeriodIds : \E bid \in Users \cup {NULL} : unlock_commissions(pid, bid)
    \/ \E uid \in Users : \E pid \in PeriodIds \cup {NULL} : \E banned \in BanAmounts :
          create_settlement_ban_report(uid, pid, banned)
    \/ \E i \in 1..MaxReports : approve_settlement_ban_report(i)
    \/ \E i \in 1..MaxReports : reject_settlement_ban_report(i)
    \/ \E i \in 1..MaxReports : apply_settlement_ban_report(i)
    \/ NextDay
    \/ NextSecond

Spec == Init /\ [][Next]_vars


(* ======================= properties ======================= *)
RECURSIVE SumDeltaLocked(_, _)
SumDeltaLocked(led, uid) ==
    IF led = << >> THEN 0
    ELSE (IF Head(led).user_id = uid THEN Head(led).delta_locked_coins ELSE 0)
         + SumDeltaLocked(Tail(led), uid)

RECURSIVE SumDeltaAvailable(_, _)
SumDeltaAvailable(led, uid) ==
    IF led = << >> THEN 0
    ELSE (IF Head(led).user_id = uid THEN Head(led).delta_available_coins ELSE 0)
         + SumDeltaAvailable(Tail(led), uid)

LockedOf(uid) ==
    IF \E a \in wallet_accounts : a.user_id = uid
    THEN (CHOOSE a \in wallet_accounts : a.user_id = uid).locked_coins ELSE 0

AvailableOf(uid) ==
    IF \E a \in wallet_accounts : a.user_id = uid
    THEN (CHOOSE a \in wallet_accounts : a.user_id = uid).available_coins ELSE 0

\* C1: in every reachable state each user's lockedCoins and availableCoins equal the sums
\* of deltaLockedCoins and deltaAvailableCoins over that user's ledger entries (0/0
\* without an account), and no user has two account rows.
C1_WalletEqualsLedger ==
    \A uid \in Users :
        /\ Cardinality({ a \in wallet_accounts : a.user_id = uid }) <= 1
        /\ LockedOf(uid) = SumDeltaLocked(wallet_ledger, uid)
        /\ AvailableOf(uid) = SumDeltaAvailable(wallet_ledger, uid)

\* a user credited by two lock-in entries, and a user whose commission was unlocked
C1_Witness ==
    /\ \E uid \in Users :
          Cardinality({ i \in 1..Len(wallet_ledger) :
                           /\ wallet_ledger[i].user_id = uid
                           /\ wallet_ledger[i].entry_type = "COMMISSION_LOCKED_IN" }) >= 2
    /\ \E uid \in Users : AvailableOf(uid) > 0

\* C2: on every step, a Commission row that stays in the table never goes from FUNDED back
\* to UNFUNDED nor from unlocked back to locked (so each change happens at most once).
C2_FundingAndUnlockOneWay ==
    [][ \A c \in commissions : \A d \in commissions' :
           CommKey(c) = CommKey(d) =>
              /\ (c.funding_status = FUNDED => d.funding_status = FUNDED)
              /\ (c.is_unlocked = 1 => d.is_unlocked = 1)
              /\ d.funding_status \in {UNFUNDED, FUNDED}
              /\ d.is_unlocked \in {0, 1} ]_vars

\* a row that made both changes
C2_Witness ==
    \E c \in commissions : c.funding_status = FUNDED /\ c.is_unlocked = 1

\* C3: a FUNDED Commission row implies that its source user's payable of the same period
\* has status PAID.
C3_FundedImpliesSourcePaid ==
    \A c \in commissions :
        c.funding_status = FUNDED =>
            \E y \in PayableRows(payables, c.period_id, c.source_user_id) : y.status = PAID

\* a funded row whose source paid by payment, while another payable is still not PAID
C3_Witness ==
    /\ \E c \in commissions : c.funding_status = FUNDED
    /\ \E y \in payables : y.status = PARTIAL

\* the places where unlock is called: the endpoint on the stored tables, and stage 3 of a
\* confirmation that has just funded, on the tables as the funding stage left them
UnlockCallSites ==
    { [st |-> Tables, pays |-> payables, period_id |-> p.period_id, user_id |-> uid]
      : p \in periods, uid \in Users }
    \cup
    UNION { LET payment == payments[i]
            IN { [st |-> FundingCascade(Tables, payment.period_id,
                                        payment.payer_user_id, now),
                  pays |-> (payables \ {y}) \cup {ConfirmedPayable(payment, y, p)},
                  period_id |-> payment.period_id, user_id |-> uid]
                 : << y, p, uid >> \in
                     { t \in PayableRows(payables, payment.period_id, payment.payer_user_id)
                               \X PeriodRows(payment.period_id) \X Users :
                          just_paid(t[1].status,
                                    ConfirmedPayable(payment, t[1], t[2]).status) } }
            : i \in { j \in 1..Len(payments) : PaymentIsSubmitted(payments[j]) } }

UnlockAt(site) ==
    unlock_commissions_for_beneficiary(site.st, site.pays, site.period_id, site.user_id)

\* C4: an unlocked Commission row is FUNDED and its beneficiary's own payable of the same
\* period is PAID; and unlock called for a beneficiary whose payable is absent or not PAID
\* changes no commission row, ledger entry or wallet balance.
C4_UnlockOnlyWhenBeneficiaryPaid ==
    /\ \A c \in commissions :
          c.is_unlocked = 1 =>
             /\ c.funding_status = FUNDED
             /\ \E y \in PayableRows(payables, c.period_id, c.beneficiary_user_id) :
                   y.status = PAID
    /\ \A site \in UnlockCallSites :
          (~ \E y \in PayableRows(site.pays, site.period_id, site.user_id) : y.status = PAID)
             => UnlockAt(site) = site.st

\* an unlocked row, next to a funded row that stays locked because its beneficiary has no
\* payable, and one that stays locked because its beneficiary has not paid
C4_Witness ==
    /\ \E c \in commissions : c.is_unlocked = 1
    /\ \E c \in commissions :
          /\ c.funding_status = FUNDED /\ c.is_unlocked = 0
          /\ PayableRows(payables, c.period_id, c.beneficiary_user_id) = {}
    /\ \E c \in commissions :
          /\ c.funding_status = FUNDED /\ c.is_unlocked = 0
          /\ \E y \in PayableRows(payables, c.period_id, c.beneficiary_user_id) :
                y.status # PAID

\* C5: at every place unlock is called, a second call right after the first one appends no
\* ledger entry, flips no commission row and leaves the wallet balances as they were.
C5_UnlockIdempotent ==
    \A site \in UnlockCallSites :
        LET first == UnlockAt(site)
            second == unlock_commissions_for_beneficiary(first, site.pays,
                                                         site.period_id, site.user_id)
        IN /\ second.wallet_ledger = first.wallet_ledger
           /\ second.commissions = first.commissions
           /\ second.wallet_accounts = first.wallet_accounts

\* a call site where the first call does unlock something
C5_Witness ==
    \E site \in UnlockCallSites :
        /\ Len(UnlockAt(site).wallet_ledger) = Len(site.st.wallet_ledger) + 1
        /\ UnlockAt(site).commissions # site.st.commissions

PaymentConfirmedInStep(i) ==
    /\ i \in 1..Len(payments)
    /\ payments[i].status = SUBMITTED
    /\ payments'[i].status = CONFIRMED

\* C6: a step that confirms a payment funds every still-UNFUNDED commission row of
\* (period, payer), with one new ledger entry per beneficiary at least, exactly when the
\* payer's payable was not PAID before and is PAID after; otherwise the step changes no
\* commission row, no ledger entry and no wallet balance.
C6_FundingIffNewlyPaid ==
    [][ \A i \in 1..Len(payments) :
           PaymentConfirmedInStep(i) =>
              LET pid == payments[i].period_id
                  uid == payments[i].payer_user_id
                  newly == /\ \E y \in PayableRows(payables, pid, uid) : y.status # PAID
                           /\ \E y \in PayableRows(payables', pid, uid) : y.status = PAID
                  unfunded == { c \in commissions : /\ c.period_id = pid
                                                    /\ c.source_user_id = uid
                                                    /\ c.funding_status = UNFUNDED }
              IN IF newly
                 THEN /\ \A c \in unfunded : \E d \in commissions' :
                            /\ CommKey(d) = CommKey(c)
                            /\ d.funding_status = FUNDED
                            /\ d.amount_coins = c.amount_coins
                      /\ Len(wallet_ledger') >= Len(wallet_ledger)
                            + Cardinality({ c.beneficiary_user_id : c \in unfunded })
                 ELSE /\ commissions' = commissions
                      /\ wallet_ledger' = wallet_ledger
                      /\ wallet_accounts' = wallet_accounts ]_vars

\* a payable with a partial confirmation and then the one that completed it, whose
\* commission rows are funded
C6_Witness ==
    \E i, j \in 1..Len(payments) :
        /\ i # j
        /\ payments[i].status = CONFIRMED /\ payments[j].status = CONFIRMED
        /\ payments[i].period_id = payments[j].period_id
        /\ payments[i].payer_user_id = payments[j].payer_user_id
        /\ \E y \in PayableRows(payables, payments[i].period_id, payments[i].payer_user_id) :
              y.status = PAID
        /\ \E c \in commissions : /\ c.period_id = payments[i].period_id
                                  /\ c.source_user_id = payments[i].payer_user_id
                                  /\ c.funding_status = FUNDED

\* C7: no Commission row is FUNDED and still locked while its beneficiary's own payable of
\* that period is PAID.
C7_NoFundedLockedWithPaidBeneficiary ==
    \A c \in commissions :
        ~ ( /\ c.funding_status = FUNDED
            /\ c.is_unlocked = 0
            /\ \E y \in PayableRows(payables, c.period_id, c.beneficiary_user_id) :
                  y.status = PAID )

\* a beneficiary who paid, with an unlocked commission, and who is a source as well
C7_Witness ==
    \E c \in commissions :
        /\ c.is_unlocked = 1
        /\ \E d \in commissions : /\ d.period_id = c.period_id
                                  /\ d.source_user_id = c.beneficiary_user_id
                                  /\ d.funding_status = FUNDED

\* C8: on every step, amountPaidCoins of a payable row that stays in the table does not
\* decrease.
C8_PaidNeverDecreases ==
    [][ \A y \in payables : \A z \in payables' :
           (y.period_id = z.period_id /\ y.user_id = z.user_id)
              => z.amount_paid_coins >= y.amount_paid_coins ]_vars

\* a payable that took two confirmed payments
C8_Witness ==
    \E i, j \in 1..Len(payments) :
        /\ i # j
        /\ payments[i].status = CONFIRMED /\ payments[j].status = CONFIRMED
        /\ payments[i].period_id = payments[j].period_id
        /\ payments[i].payer_user_id = payments[j].payer_user_id

SumNewlyConfirmed(pid, uid) ==
    LET idx == { i \in 1..Len(payments) : /\ payments[i].period_id = pid
                                          /\ payments[i].payer_user_id = uid
                                          /\ PaymentConfirmedInStep(i) }
    IN SumAmountCoins({ [payment_id |-> i, amount_coins |-> payments[i].amount_coins]
                        : i \in idx })

\* C9: confirm and reject are refused (no transition, so nothing changes) for a payment
\* that is not SUBMITTED; on every step, a payment that is not SUBMITTED stays as it is, a
\* SUBMITTED one keeps its period, payer and amount and moves to CONFIRMED or REJECTED at
\* most, and a payable's amountPaidCoins grows by exactly the amounts of its payments
\* confirmed in that step (so a payment is counted once); a step that rejects a payment
\* leaves the payable, commissions, ledger and wallets alone.
C9_PaymentStatusOneWay ==
    /\ [] (\A i \in 1..Len(payments) :
              payments[i].status # SUBMITTED =>
                 /\ ~ ENABLED confirm_settlement_payment(i)
                 /\ ~ ENABLED reject_settlement_payment(i))
    /\ [][ /\ Len(payments') >= Len(payments)
           /\ \A i \in 1..Len(payments) :
                 /\ payments[i].status # SUBMITTED => payments'[i] = payments[i]
                 /\ payments'[i].status \in {SUBMITTED, CONFIRMED, REJECTED}
                 /\ payments'[i].period_id = payments[i].period_id
                 /\ payments'[i].payer_user_id = payments[i].payer_user_id
                 /\ payments'[i].amount_coins = payments[i].amount_coins
           /\ \A y \in payables : \A z \in payables' :
                 (y.period_id = z.period_id /\ y.user_id = z.user_id)
                    => z.amount_paid_coins = y.amount_paid_coins
                                             + SumNewlyConfirmed(y.period_id, y.user_id)
           /\ (\E i \in 1..Len(payments) : payments'[i] # payments[i]
                                           /\ ~ PaymentConfirmedInStep(i))
                 => UNCHANGED << payables, commissions, wallet_ledger, wallet_accounts >> ]_vars
   
\* a confirmed and a rejected payment of the same payable
C9_Witness ==
    \E i, j \in 1..Len(payments) :
        /\ payments[i].status = CONFIRMED /\ payments[j].status = REJECTED
        /\ payments[i].period_id = payments[j].period_id
        /\ payments[i].payer_user_id = payments[j].payer_user_id

\* the transition rule of section 4.4
StatusRule(due, paid, day, pay_end) ==
    IF due <= 0 \/ paid >= due THEN PAID
    ELSE IF day > pay_end THEN OVERDUE
    ELSE IF paid > 0 THEN PARTIAL
    ELSE UNPAID

\* C10: on every step that changes amountPaidCoins or amountDueCoins of a payable row, the
\* row's new status is the one the rule of section 4.4 gives for the new due and paid.
C10_StatusFollowsRule ==
    [][ \A y \in payables : \A z \in payables' :
           ( /\ y.period_id = z.period_id /\ y.user_id = z.user_id
             /\ (y.amount_paid_coins # z.amount_paid_coins
                    \/ y.amount_due_coins # z.amount_due_coins) )
           => \E p \in PeriodRows(z.period_id) :
                 z.status = StatusRule(z.amount_due_coins, z.amount_paid_coins,
                                       today, p.pay_end) ]_vars

\* a payable left OVERDUE by a late partial confirmation after a ban deduction lowered
\* its due, next to a payable that a ban deduction made PAID
C10_Witness ==
    /\ \E y \in payables : /\ y.status = OVERDUE
                           /\ y.amount_paid_coins > 0
    /\ \E i \in 1..Len(reports) : reports[i].is_applied = 1
    /\ \E y \in payables : y.status = PAID

(* ---------------- submitting a payment ---------------- *)
\* the conditions section 4.3 puts on submit(period, payer, amount), on the current rows
SubmitAllowed(pid, uid, amount) ==
    \E p \in PeriodRows(pid) :
       /\ p.pay_start <= today /\ today <= p.pay_end
       /\ \E y \in PayableRows(payables, pid, uid) :
             amount <= y.amount_due_coins - y.amount_paid_coins

\* C11: a step that adds a payment adds exactly one, SUBMITTED, for a period whose pay
\* window holds today, for a payer who has a payable row of that period, and with an
\* amount of at most due - paid; a submit with an explicit period for which one of these
\* conditions fails is refused (no transition, nothing written); and a step that adds a
\* payment leaves the older payments, the payables, commissions, ledger and wallets
\* unchanged.
C11_SubmitOnlyWhenAllowed ==
    /\ [] (\A uid \in Users : \A pid \in PeriodIds : \A amount \in PayAmounts :
              ~ SubmitAllowed(pid, uid, amount)
                 => ~ ENABLED create_settlement_payment(uid, pid, amount))
    /\ [][ Len(payments') # Len(payments) =>
              /\ Len(payments') = Len(payments) + 1
              /\ SubSeq(payments', 1, Len(payments)) = payments
              /\ LET new == payments'[Len(payments')]
                 IN /\ new.status = SUBMITTED
                    /\ SubmitAllowed(new.period_id, new.payer_user_id, new.amount_coins)
              /\ UNCHANGED << payables, commissions, wallet_ledger, wallet_accounts >> ]_vars

\* a partial payment was submitted in its window, and the day has since moved past the
\* window, where a further submit for the same payable is refused
C11_Witness ==
    \E i \in 1..Len(payments) :
       /\ payments[i].status = SUBMITTED
       /\ \E p \in PeriodRows(payments[i].period_id) : today > p.pay_end
       /\ \E y \in PayableRows(payables, payments[i].period_id, payments[i].payer_user_id) :
             payments[i].amount_coins < y.amount_due_coins - y.amount_paid_coins

\* the period section 4.3 names for a submit without a period id (empty: none)
ResolvedByPriority(uid) ==
    LET Newest(S) == { p \in S : \A q \in S : q.period_id <= p.period_id }
        active == { p \in periods : p.is_active = 1 }
        unpaid == { p \in periods : \E y \in PayableRows(payables, p.period_id, uid) :
                                        y.status # PAID }
        open == { p \in periods : p.status \in {OPEN, PAYING} }
    IN IF active # {} THEN active
       ELSE IF unpaid # {} THEN Newest(unpaid)
       ELSE Newest(open)

\* C12: a submit without a period id goes to the period the priority names (the active
\* period, else the newest period in which the submitting user has a payable that is not
\* PAID, else the newest OPEN/PAYING period): it is accepted exactly when a submit naming
\* that period is accepted, and the payment it creates is of that period.
C12_SubmitResolvesByPriority ==
    /\ [] (\A uid \in Users : \A amount \in PayAmounts :
              ENABLED create_settlement_payment(uid, NULL, amount)
                 <=> \E p \in ResolvedByPriority(uid) :
                        ENABLED create_settlement_payment(uid, p.period_id, amount))
    /\ [][ \A uid \in Users : \A amount \in PayAmounts :
              create_settlement_payment(uid, NULL, amount)
                 => \E p \in ResolvedByPriority(uid) :
                       payments'[Len(payments')].period_id = p.period_id ]_vars

(* ---------------- generation ---------------- *)
HasGeneratedRows(pid) ==
    \/ \E x \in snapshots : x.period_id = pid
    \/ \E x \in incomes : x.period_id = pid
    \/ \E x \in payables : x.period_id = pid
    \/ \E x \in commissions : x.period_id = pid

HasPayment(pid) == \E i \in 1..Len(payments) : payments[i].period_id = pid

\* C13: generate(period, regenerate = false) is refused (no transition, so no state
\* change) whenever a snapshot, income, payable or commission row of the period exists,
\* and generate(period, regenerate = true) is refused whenever a payment of the period
\* exists, whatever its status; so a generate step starts from a period without payments
\* and, when regenerate is false, without rows.
C13_GenerateRefused ==
    /\ [] (\A pid \in PeriodIds :
              /\ HasGeneratedRows(pid) => ~ ENABLED generate_settlement_for_period(pid, FALSE)
              /\ HasPayment(pid) => ~ ENABLED generate_settlement_for_period(pid, TRUE))
    /\ [][ \A pid \in PeriodIds :
              /\ generate_settlement_for_period(pid, FALSE) => ~ HasGeneratedRows(pid)
              /\ generate_settlement_for_period(pid, TRUE) => ~ HasPayment(pid) ]_vars

\* a generated period with a rejected and a submitted payment, where both refusals apply
C13_Witness ==
    \E pid \in PeriodIds :
       /\ HasGeneratedRows(pid)
       /\ \E i, j \in 1..Len(payments) :
             /\ payments[i].period_id = pid /\ payments[i].status = REJECTED
             /\ payments[j].period_id = pid /\ payments[j].status = SUBMITTED

\* what a generation of the period writes from the current referral graph and earnings
FreshSnapshots(pid) == SnapshotInsertRows(pid)
FreshIncomes(pid) ==
    UNION { IncomeInsertRows(p, FreshSnapshots(pid)) : p \in PeriodRows(pid) }

\* C14: generate(period, regenerate = true) on a generated period without payments
\* succeeds, and after it the period's snapshot, income and payable rows are the ones a
\* fresh generation from the current referral graph and earning records writes.
C14_RegenerateReplaces ==
    /\ [] (\A pid \in PeriodIds :
              (PeriodRows(pid) # {} /\ HasGeneratedRows(pid) /\ ~ HasPayment(pid))
                 => ENABLED generate_settlement_for_period(pid, TRUE))
    /\ [][ \A pid \in PeriodIds :
              (HasGeneratedRows(pid) /\ generate_settlement_for_period(pid, TRUE))
                 => /\ { x \in snapshots' : x.period_id = pid } = FreshSnapshots(pid)
                    /\ { x \in incomes' : x.period_id = pid } = FreshIncomes(pid)
                    /\ { x \in payables' : x.period_id = pid }
                          = PayableInsertRows(pid, FreshIncomes(pid)) ]_vars

\* floor(gross * bps / 10000), the split of section 3
FloorShare(gross, bps) == (gross * bps) \div 10000

\* the earning records of a user dated within the stat window of a period, inclusive
WindowRecords(p, uid) ==
    { er \in EarningRows : /\ er.user_id = uid
                           /\ p.period_start <= er.stat_date
                           /\ er.stat_date <= p.period_end }

\* the UserIncome row section 3 prescribes for gross coins and inviters l1, l2
IncomeRowBySection3(p, uid, gross, l1, l2) ==
    LET c1 == IF l1 = NULL THEN 0 ELSE FloorShare(gross, p.l1_bps)
        c2 == IF l2 = NULL THEN 0 ELSE FloorShare(gross, p.l2_bps)
    IN [period_id |-> p.period_id, user_id |-> uid, gross_coins |-> gross,
        self_keep_coins |-> FloorShare(gross, p.host_bps),
        self_payable_coins |-> FloorShare(gross, p.collect_bps),
        l1_user_id |-> l1, l2_user_id |-> l2,
        l1_commission_coins |-> c1, l2_commission_coins |-> c2,
        platform_retain_coins |-> FloorShare(gross, p.collect_bps) - c1 - c2]

\* C15: a generation of a period writes, for every user with at least one earning record
\* dated within [statStart, statEnd], exactly one UserIncome row, whose gross is the sum
\* of coinsTotal in the window, whose l1/l2 ids are those of the user's snapshot row of
\* the period and whose five derived values are the floor formulas (commission 0 for an
\* absent inviter, platformRetain the remainder); a user without earnings in the window
\* gets no row; and 100000 coins at 6000/4000/2000/400 split into
\* 60000/40000/20000/4000/16000.
C15_IncomeRowPerEarner ==
    /\ BpsShare(100000, 6000) = 60000
    /\ BpsShare(100000, 4000) = 40000
    /\ BpsShare(100000, 2000) = 20000
    /\ BpsShare(100000, 400) = 4000
    /\ BpsShare(100000, 4000) - BpsShare(100000, 2000) - BpsShare(100000, 400) = 16000
    /\ [][ \A pid \in PeriodIds : \A regenerate \in BOOLEAN :
              generate_settlement_for_period(pid, regenerate) =>
                 \E p \in PeriodRows(pid) : \A uid \in Users :
                    LET recs == WindowRecords(p, uid)
                        rows == { x \in incomes' : x.period_id = pid /\ x.user_id = uid }
                    IN IF recs = {}
                       THEN rows = {}
                       ELSE \E s \in snapshots' :
                               /\ s.period_id = pid /\ s.user_id = uid
                               /\ rows = { IncomeRowBySection3(p, uid, SumCoinsTotal(recs),
                                              s.inviter_level1, s.inviter_level2) } ]_vars

\* a generated period with a row summing two records (15 + 10), a row whose shares are
\* rounded down (13), and a user with a snapshot row but no earnings and no income row
C15_Witness ==
    \E pid \in PeriodIds :
       /\ \E x \in incomes : x.period_id = pid /\ x.gross_coins = 25
       /\ \E x \in incomes : x.period_id = pid /\ x.gross_coins = 13
                             /\ x.self_keep_coins = 7
       /\ \E s \in snapshots : /\ s.period_id = pid
                               /\ ~ \E x \in incomes : x.period_id = pid
                                                       /\ x.user_id = s.user_id

\* the inviter and the commission amount of an income row at a level
InviterAt(i, level) == IF level = 1 THEN i.l1_user_id ELSE i.l2_user_id
CommissionAt(i, level) == IF level = 1 THEN i.l1_commission_coins ELSE i.l2_commission_coins

\* C16: right after a generation of a period, a Commission row (period, source,
\* beneficiary, level) exists if and only if the source's UserIncome row of the period has
\* that beneficiary as its inviter at that level and a commission amount > 0 at that
\* level; the row is UNFUNDED, locked and carries that amount; and a source whose income
\* row has no inviters has no Commission rows and platformRetain = selfPayable.
C16_CommissionRowsAfterGeneration ==
    [][ \A pid \in PeriodIds : \A regenerate \in BOOLEAN :
           generate_settlement_for_period(pid, regenerate) =>
              /\ \A src \in Users : \A ben \in Users : \A level \in {1, 2} :
                    LET rows == { c \in commissions' :
                                     /\ c.period_id = pid /\ c.source_user_id = src
                                     /\ c.beneficiary_user_id = ben /\ c.level = level }
                        due == { i \in incomes' :
                                    /\ i.period_id = pid /\ i.user_id = src
                                    /\ InviterAt(i, level) = ben
                                    /\ CommissionAt(i, level) > 0 }
                    IN /\ (rows # {}) <=> (due # {})
                       /\ \A c \in rows : \A i \in due :
                             /\ c.amount_coins = CommissionAt(i, level)
                             /\ c.funding_status = UNFUNDED
                             /\ c.is_unlocked = 0
                       /\ Cardinality(rows) <= 1
              /\ \A i \in incomes' :
                    (i.period_id = pid /\ i.l1_user_id = NULL /\ i.l2_user_id = NULL)
                       => /\ ~ \E c \in commissions' : /\ c.period_id = pid
                                                        /\ c.source_user_id = i.user_id
                          /\ i.platform_retain_coins = i.self_payable_coins ]_vars

\* a generated period with an earner who has no inviters (platform keeps all 5 coins
\* payable), an earner whose inviter gets no row because the commission is 0, and an
\* earner whose level-1 inviter gets a row
C16_Witness ==
    \E pid \in PeriodIds :
       /\ \E i \in incomes : /\ i.period_id = pid
                             /\ i.l1_user_id = NULL /\ i.l2_user_id = NULL
                             /\ i.self_payable_coins = 5 /\ i.platform_retain_coins = 5
       /\ \E i \in incomes : /\ i.period_id = pid
                             /\ i.l1_user_id # NULL /\ i.l1_commission_coins = 0
       /\ \E c \in commissions : c.period_id = pid /\ c.level = 1 /\ c.amount_coins > 0

\* C17: in every reachable state a UserPayable row exists for (period, user) exactly when
\* a UserIncome row exists for (period, user), there is one of each at most, and the
\* payable's amountDueCoins equals the income row's current selfPayableCoins; this holds
\* after every ban application too, and the payable rows a generation writes have
\* amountPaidCoins = 0 and status UNPAID.
C17_PayableMirrorsIncome ==
    /\ [] (\A pid \in PeriodIds : \A uid \in Users :
              LET incs == IncomeRows(pid, uid)
                  pays == PayableRows(payables, pid, uid)
              IN /\ (pays # {}) <=> (incs # {})
                 /\ Cardinality(pays) <= 1 /\ Cardinality(incs) <= 1
                 /\ \A y \in pays : \A i \in incs :
                       y.amount_due_coins = i.self_payable_coins)
    /\ [][ \A y \in payables' :
              (~ \E z \in payables : z.period_id = y.period_id /\ z.user_id = y.user_id)
                 => y.amount_paid_coins = 0 /\ y.status = UNPAID ]_vars

\* a ban application has lowered an income row's gross from 25 to 10, and the payable of
\* the same (period, user) is due the recomputed 4 coins
C17_Witness ==
    /\ \E i \in 1..Len(reports) : reports[i].is_applied = 1
    /\ \E x \in incomes : /\ x.gross_coins = 10 /\ x.self_payable_coins = 4
                          /\ \E y \in PayableRows(payables, x.period_id, x.user_id) :
                                y.amount_due_coins = 4

\* C18: in every reachable state, after generation and after any number of ban
\* applications, every UserIncome row carries the values the section-3 formulas give for
\* its current grossCoins, its inviters and its period's bps, and so
\* l1Commission + l2Commission + platformRetain = selfPayable exactly.
C18_IncomeDerivedFromGross ==
    \A i \in incomes :
       /\ \E p \in PeriodRows(i.period_id) :
             i = IncomeRowBySection3(p, i.user_id, i.gross_coins, i.l1_user_id, i.l2_user_id)
       /\ i.l1_commission_coins + i.l2_commission_coins + i.platform_retain_coins
             = i.self_payable_coins

\* an income row recomputed by a ban application: gross 10, payable 4, level-1
\* commission 2, platform 2
C18_Witness ==
    /\ \E r \in 1..Len(reports) : reports[r].is_applied = 1
    /\ \E i \in incomes : /\ i.gross_coins = 10 /\ i.self_keep_coins = 6
                          /\ i.l1_commission_coins = 2 /\ i.l2_commission_coins = 0
                          /\ i.platform_retain_coins = 2

(* ---------------- the integer split on its own ---------------- *)
MaxGross == 24

\* ratios an admin may send, valid and invalid ones
BpsValues == {0, 400, 2000, 3333, 4000, 6000, 6667, 10000}

SplitRequests ==
    { [period_start |-> 1, period_end |-> 1, pay_start |-> 1, pay_end |-> 1,
       host_bps |-> h, collect_bps |-> c, l1_bps |-> a, l2_bps |-> b, status |-> OPEN]
      : h \in BpsValues, c \in BpsValues, a \in {0, 400, 2000, 3333}, b \in {0, 400, 2000} }

\* one period, created from an accepted request
InitSplit ==
    /\ txns = [t \in TxnIds |-> IdleTxn]
    /\ \E data \in SplitRequests :
          /\ _validate_period_create(data)
          /\ periods = { [period_id |-> 1,
                          period_start |-> data.period_start, period_end |-> data.period_end,
                          pay_start |-> data.pay_start, pay_end |-> data.pay_end,
                          host_bps |-> data.host_bps, collect_bps |-> data.collect_bps,
                          l1_bps |-> data.l1_bps, l2_bps |-> data.l2_bps,
                          status |-> data.status, is_active |-> 0] }
    /\ next_period_id = 2
    /\ user_referrals = ReferralRows
    /\ snapshots = {}
    /\ incomes = {}
    /\ payables = {}
    /\ commissions = {}
    /\ payments = << >>
    /\ reports = << >>
    /\ wallet_accounts = {}
    /\ wallet_ledger = << >>
    /\ today = 1
    /\ now = 1

\* the income row generation computes for a user whose records of the window sum to gross
SplitGross(gross, l1, l2) ==
    /\ \E p \in periods : incomes' = { IncomeSelectRow(p, 1, gross, l1, l2) }
    /\ UNCHANGED << periods, next_period_id, user_referrals, snapshots, payables,
                    commissions, payments, reports, wallet_accounts, wallet_ledger,
                    today, now, txns >>

NextSplit == \E gross \in 0..MaxGross : \E l1 \in {NULL, 2} : \E l2 \in {NULL, 3} :
                SplitGross(gross, l1, l2)

SpecSplit == InitSplit /\ [][NextSplit]_vars

\* C19: for every gross >= 0 and every period accepted by create, the integer split
\* gives gross - 1 <= selfKeep + selfPayable <= gross, and selfKeep, selfPayable,
\* l1Commission, l2Commission and platformRetain are all >= 0.
C19_SplitWithinOneAndNonNegative ==
    \A i \in incomes :
       /\ i.gross_coins - 1 <= i.self_keep_coins + i.self_payable_coins
       /\ i.self_keep_coins + i.self_payable_coins <= i.gross_coins
       /\ i.self_keep_coins >= 0 /\ i.self_payable_coins >= 0
       /\ i.l1_commission_coins >= 0 /\ i.l2_commission_coins >= 0
       /\ i.platform_retain_coins >= 0

\* a split that loses one coin to rounding, with both commissions paid and nothing left
\* to the platform
C19_Witness ==
    \E i \in incomes :
       /\ i.self_keep_coins + i.self_payable_coins = i.gross_coins - 1
       /\ i.l1_commission_coins > 0 /\ i.l2_commission_coins > 0
       /\ i.platform_retain_coins = 0

(* ---------------- settlement next to the live referral graph ---------------- *)
\* the handlers of the settlement router next to PUT /api/account/inviter; the payments
\* submitted are those of user 1
GraphPayers == {1}
GraphPayAmounts == {5, 10}

NextGraph ==
    \/ \E data \in PeriodRequests : create_settlement_period(data)
    \/ \E pid \in PeriodIds : activate_settlement_period(pid)
    \/ \E pid \in PeriodIds : delete_settlement_period(pid)
    \/ \E pid \in PeriodIds : \E regenerate \in BOOLEAN :
          generate_settlement_for_period(pid, regenerate)
    \/ \E pid \in PeriodIds : generate_commissions_for_period(pid)
    \/ \E uid \in GraphPayers : \E pid \in PeriodIds \cup {NULL} :
          \E amount \in GraphPayAmounts : create_settlement_payment(uid, pid, amount)
    \/ \E i \in 1..MaxPayments : confirm_settlement_payment(i)
    \/ \E i \in 1..MaxPayments : reject_settlement_payment(i)
    \/ \E pid \in PeriodIds : \E bid \in Users \cup {NULL} : unlock_commissions(pid, bid)
    \/ \E uid \in Users : \E pid \in PeriodIds \cup {NULL} : \E banned \in BanAmounts :
          create_settlement_ban_report(uid, pid, banned)
    \/ \E i \in 1..MaxReports : approve_settlement_ban_report(i)
    \/ \E i \in 1..MaxReports : reject_settlement_ban_report(i)
    \/ \E i \in 1..MaxReports : apply_settlement_ban_report(i)
    \/ \E r \in BindRequests : update_inviter(r.user_id, r.inviter)
    \/ NextDay
    \/ NextSecond

SpecGraph == Init /\ [][NextGraph]_vars

\* C20: a change of the live referral graph leaves every ReferralSnapshot, UserIncome and
\* Commission row as it is; on every step the snapshot rows of a period that still exists
\* stay as written, an income row keeps its l1/l2 user ids and a commission row keeps its
\* place; and after every step, ban applications included, the l1/l2 ids of an income row
\* are the inviters of the snapshot row of the same period and user, and the beneficiary
\* of a commission row is the inviter its source's income row has at that level.
C20_SnapshotFrozen ==
    [][ /\ user_referrals' # user_referrals
            => UNCHANGED << snapshots, incomes, commissions >>
        /\ \A s \in snapshots :
              (\E p \in periods' : p.period_id = s.period_id) => s \in snapshots'
        /\ \A i \in incomes : \A j \in incomes' :
              (i.period_id = j.period_id /\ i.user_id = j.user_id)
                 => j.l1_user_id = i.l1_user_id /\ j.l2_user_id = i.l2_user_id
        /\ \A c \in commissions :
              (\E p \in periods' : p.period_id = c.period_id)
                 => \E d \in commissions' : CommKey(d) = CommKey(c)
        /\ \A j \in incomes' :
              \E s \in snapshots' : /\ s.period_id = j.period_id /\ s.user_id = j.user_id
                                    /\ j.l1_user_id = s.inviter_level1
                                    /\ j.l2_user_id = s.inviter_level2
        /\ \A d \in commissions' :
              \E j \in incomes' : /\ j.period_id = d.period_id
                                  /\ j.user_id = d.source_user_id
                                  /\ InviterAt(j, d.level) = d.beneficiary_user_id ]_vars

\* user 1 was rebound from inviter 2 to inviter 3 after a period was generated; a ban
\* report of user 1 has since been applied to that period, whose snapshot and level-1
\* commission still name inviter 2
C20_Witness ==
    /\ \E r \in user_referrals : r.user_id = 1 /\ r.inviter_level1 = 3
    /\ \E i \in 1..Len(reports) :
          /\ reports[i].is_applied = 1 /\ reports[i].user_id = 1
          /\ \E s \in snapshots : /\ s.period_id = reports[i].period_id
                                  /\ s.user_id = 1 /\ s.inviter_level1 = 2
          /\ \E c \in commissions : /\ c.period_id = reports[i].period_id
                                    /\ c.source_user_id = 1 /\ c.level = 1
                                    /\ c.beneficiary_user_id = 2

(* ---------------- period management ---------------- *)
ActivePeriods == { p \in periods : p.is_active = 1 }

SameWindow(p, data) ==
    p.period_start = data.period_start /\ p.period_end = data.period_end

\* C22 as stated: a create whose (statStart, statEnd) equals that of an existing period
\* is rejected as an error.
C22_DuplicateWindowIsError ==
    \A data \in PeriodRequests :
       (\E p \in periods : SameWindow(p, data))
          => create_settlement_period_status(data) >= 400

\* C22, amended: a valid create whose (statStart, statEnd) equals that of an existing
\* period is answered with status 200 and the existing period, not with an error; it
\* makes no transition, so it creates no second period and leaves the existing one as it
\* is; and no two periods ever share a statistics window.
C22_DuplicateWindowReturnsExisting ==
    /\ \A data \in PeriodRequests :
          (\E p \in periods : SameWindow(p, data))
             => /\ create_settlement_period_status(data) = 200
                /\ ~ ENABLED create_settlement_period(data)
    /\ \A p \in periods : \A q \in periods :
          (p.period_start = q.period_start /\ p.period_end = q.period_end) => p = q

\* a period exists whose window a request repeats, room for a further period is left, and
\* the existing period is no longer what the request would create (generation moved it
\* to PAYING)
C22_Witness ==
    /\ next_period_id <= MaxPeriods
    /\ \E data \in PeriodRequests : \E p \in periods :
          /\ SameWindow(p, data)
          /\ p.status # data.status
          /\ create_settlement_period_status(data) = 200

HasLedgerEntry(pid) == \E i \in 1..Len(wallet_ledger) : wallet_ledger[i].period_id = pid

\* C23: delete(period) is refused (no transition, state unchanged) whenever a payment of
\* any status or a wallet ledger entry references the period; so the period of every
\* payment row is still there; and right after a delete no period, snapshot, income,
\* payable or commission row of that period remains, while the rows of other periods,
\* the payments, the ledger and the wallets are as before.
C23_DeleteOnlyUnreferenced ==
    /\ [] (\A pid \in PeriodIds :
              (HasPayment(pid) \/ HasLedgerEntry(pid)) => ~ ENABLED delete_settlement_period(pid))
    /\ [] (\A i \in 1..Len(payments) : PeriodRows(payments[i].period_id) # {})
    /\ [][ \A pid \in PeriodIds :
              delete_settlement_period(pid) =>
                 /\ ~ HasPayment(pid) /\ ~ HasLedgerEntry(pid)
                 /\ periods' = { p \in periods : p.period_id # pid }
                 /\ snapshots' = { x \in snapshots : x.period_id # pid }
                 /\ incomes' = { x \in incomes : x.period_id # pid }
                 /\ payables' = { x \in payables : x.period_id # pid }
                 /\ commissions' = { x \in commissions : x.period_id # pid }
                 /\ UNCHANGED << payments, wallet_ledger, wallet_accounts >> ]_vars

\* period 1 has been deleted, and period 2 is generated and holds a rejected payment,
\* which keeps it from being deleted
C23_Witness ==
    /\ next_period_id = 3
    /\ PeriodRows(1) = {}
    /\ HasGeneratedRows(2)
    /\ \E i \in 1..Len(payments) : payments[i].period_id = 2 /\ payments[i].status = REJECTED

(* ---------------- ban reports ---------------- *)
\* C24: apply on a report that is not APPROVED, or whose isApplied is already true, is
\* refused (no transition, so no state change); a report whose isApplied is true stays
\* exactly as it is; and an income row's gross falls only in a step that takes isApplied of
\* a report of the same period and user from false to true, so each report deducts at
\* most once.
C24_AppliedAtMostOnce ==
    /\ [] (\A i \in 1..Len(reports) :
              (reports[i].status # APPROVED \/ reports[i].is_applied = 1)
                 => ~ ENABLED apply_settlement_ban_report(i))
    /\ [][ /\ \A i \in 1..Len(reports) :
                 reports[i].is_applied = 1 => reports'[i] = reports[i]
           /\ \A x \in incomes : \A y \in incomes' :
                 (x.period_id = y.period_id /\ x.user_id = y.user_id
                     /\ y.gross_coins # x.gross_coins)
                    => \E i \in 1..Len(reports) :
                          /\ reports[i].is_applied = 0 /\ reports'[i].is_applied = 1
                          /\ reports[i].period_id = x.period_id
                          /\ reports[i].user_id = x.user_id
                          /\ y.gross_coins = x.gross_coins - reports'[i].deduct_gross_coins ]_vars

\* an applied report whose deduction left gross above 0 and funded nothing, so that only
\* the isApplied flag stands in the way of a second deduction
C24_Witness ==
    \E i \in 1..Len(reports) :
       /\ reports[i].is_applied = 1 /\ reports[i].status = APPROVED
       /\ \E x \in IncomeRows(reports[i].period_id, reports[i].user_id) : x.gross_coins > 0
       /\ ~ \E c \in commissions : /\ c.period_id = reports[i].period_id
                                   /\ c.source_user_id = reports[i].user_id
                                   /\ c.funding_status = FUNDED

\* the guards section 4.7 of the specification lists for apply, on report i
SpecGuardsPass(i) ==
    /\ reports[i].status = APPROVED /\ reports[i].is_applied = 0
    /\ \E p \in PeriodRows(reports[i].period_id) : p.status # CLOSED
    /\ IncomeRows(reports[i].period_id, reports[i].user_id) # {}
    /\ PayableRows(payables, reports[i].period_id, reports[i].user_id) # {}
    /\ ~ \E c \in commissions : /\ c.period_id = reports[i].period_id
                                /\ c.source_user_id = reports[i].user_id
                                /\ (c.funding_status = FUNDED \/ c.is_unlocked = 1)
    /\ ~ \E k \in 1..Len(wallet_ledger) :
            /\ wallet_ledger[k].period_id = reports[i].period_id
            /\ wallet_ledger[k].ref_source_user_id = reports[i].user_id

\* what the step that applies report i must have done to the rows of (period, user)
AppliedAsSpecified(i) ==
    LET r == reports[i]
        pid == r.period_id
        uid == r.user_id
    IN \E p \in PeriodRows(pid) : \E x \in IncomeRows(pid, uid) :
       LET g == x.gross_coins - (IF r.banned_coins < x.gross_coins
                                 THEN r.banned_coins ELSE x.gross_coins)
           y == IncomeRowBySection3(p, uid, g, x.l1_user_id, x.l2_user_id)
           Rewritten(ben, level, amount) ==
              ben # NULL =>
                 /\ (\E c \in commissions : CommKey(c) = << pid, uid, ben, level >>)
                       => \E d \in commissions' : /\ CommKey(d) = << pid, uid, ben, level >>
                                                  /\ d.amount_coins = amount
                 /\ amount > 0
                       => \E d \in commissions' : /\ CommKey(d) = << pid, uid, ben, level >>
                                                  /\ d.amount_coins = amount
       IN /\ x.gross_coins > 0
          /\ incomes' = (incomes \ {x}) \cup {y}
          /\ \E a \in PayableRows(payables, pid, uid) :
             \E b \in PayableRows(payables', pid, uid) :
                /\ b.amount_due_coins = y.self_payable_coins
                /\ b.amount_paid_coins = a.amount_paid_coins
                /\ payables' \ {b} = payables \ {a}
          /\ Rewritten(x.l1_user_id, 1, y.l1_commission_coins)
          /\ Rewritten(x.l2_user_id, 2, y.l2_commission_coins)
          /\ { CommKey(c) : c \in commissions } \subseteq { CommKey(d) : d \in commissions' }
          /\ \A c \in commissions : \A d \in commissions' :
                (CommKey(c) = CommKey(d) /\ ~ (c.period_id = pid /\ c.source_user_id = uid))
                   => d.amount_coins = c.amount_coins
          /\ reports'[i].deduct_gross_coins = x.gross_coins - y.gross_coins
          /\ reports'[i].deduct_self_keep_coins = x.self_keep_coins - y.self_keep_coins
          /\ reports'[i].deduct_due_coins = x.self_payable_coins - y.self_payable_coins
          /\ reports'[i].deduct_l1_commission_coins
                = x.l1_commission_coins - y.l1_commission_coins
          /\ reports'[i].deduct_l2_commission_coins
                = x.l2_commission_coins - y.l2_commission_coins
          /\ reports'[i].deduct_platform_retain_coins
                = x.platform_retain_coins - y.platform_retain_coins

\* Scenario E with the operators of the program: 100000 - 30000 at 6000/4000/2000/400 bps
ScenarioE ==
    LET g == 100000 - (IF 30000 < 100000 THEN 30000 ELSE 100000)
    IN /\ BpsShare(g, 4000) = 28000
       /\ BpsShare(g, 2000) = 14000
       /\ BpsShare(g, 400) = 2800
       /\ NewPlatform(BpsShare(g, 4000), BpsShare(g, 2000), BpsShare(g, 400)) = 11200

\* C25 (as stated): every APPROVED, unapplied report that passes the guards of section 4.7
\* can be applied, whatever the current gross (>= 0) is.
C25_AppliesForAnyGross ==
    [] (\A i \in 1..Len(reports) : SpecGuardsPass(i) => ENABLED apply_settlement_ban_report(i))

\* C25 (amended): a step that applies a report found a current gross > 0 and sets gross
\* to currentGross - min(bannedCoins, currentGross), recomputes every derived income field
\* from the new gross with the generation formulas, sets the payable's amountDueCoins to
\* the new selfPayable, rewrites the matching commission rows to the new l1/l2 amounts
\* without deleting any row, and records the old-minus-new delta of each field on the
\* report; with a current gross of 0 apply is refused; Scenario E gives 28000/14000/2800/11200.
C25_ApplyRecomputes ==
    /\ ScenarioE
    /\ [] (\A i \in 1..Len(reports) :
              (\E x \in IncomeRows(reports[i].period_id, reports[i].user_id) :
                  x.gross_coins <= 0) => ~ ENABLED apply_settlement_ban_report(i))
    /\ [][ \A i \in 1..Len(reports) :
              (reports[i].is_applied = 0 /\ reports'[i].is_applied = 1)
                 => AppliedAsSpecified(i) ]_vars

\* an applied report that took the whole gross, leaving a zero-amount commission row
C25_Witness ==
    \E i \in 1..Len(reports) :
       /\ reports[i].is_applied = 1 /\ reports[i].deduct_gross_coins > 0
       /\ reports[i].deduct_l1_commission_coins > 0
       /\ \E c \in commissions : /\ c.period_id = reports[i].period_id
                                 /\ c.source_user_id = reports[i].user_id
                                 /\ c.amount_coins = 0

\* C26: apply(report) is refused (no transition, so income, payable, commission rows,
\* ledger, wallets and the report stay as they are) whenever the period is CLOSED, or a
\* commission row of that period with the affected user as source is FUNDED or unlocked, or
\* a wallet ledger entry of that period has the affected user as refSourceUserId.
C26_ApplyRefusedAfterFunding ==
    [] (\A i \in 1..Len(reports) :
           LET pid == reports[i].period_id
               uid == reports[i].user_id
           IN (\/ \E p \in PeriodRows(pid) : p.status = CLOSED
               \/ \E c \in commissions : /\ c.period_id = pid /\ c.source_user_id = uid
                                         /\ (c.funding_status = FUNDED \/ c.is_unlocked = 1)
               \/ \E k \in 1..Len(wallet_ledger) :
                     /\ wallet_ledger[k].period_id = pid
                     /\ wallet_ledger[k].ref_source_user_id = uid)
              => ~ ENABLED apply_settlement_ban_report(i))

\* an APPROVED, unapplied report on a gross > 0 whose source has paid in full, so that its
\* commission rows are funded and entered in the ledger
C26_Witness ==
    \E i \in 1..Len(reports) :
       /\ reports[i].status = APPROVED /\ reports[i].is_applied = 0
       /\ \E x \in IncomeRows(reports[i].period_id, reports[i].user_id) : x.gross_coins > 0
       /\ \E c \in commissions : /\ c.period_id = reports[i].period_id
                                 /\ c.source_user_id = reports[i].user_id
                                 /\ c.funding_status = FUNDED
       /\ \E k \in 1..Len(wallet_ledger) :
             /\ wallet_ledger[k].period_id = reports[i].period_id
             /\ wallet_ledger[k].ref_source_user_id = reports[i].user_id

\* the ledger entries the step appended
NewLedgerEntries == { wallet_ledger'[k] : k \in (Len(wallet_ledger) + 1)..Len(wallet_ledger') }

\* C27: when applying a report takes the payable of (period, user) from a non-PAID status
\* to PAID, the source's commission rows become FUNDED with their newly computed amounts
\* and each beneficiary gets one locked-in ledger entry of the amount its rows now carry;
\* when the status does not newly reach PAID, nothing is funded and no ledger entry or
\* wallet change is made.
C27_BanFundingUsesNewAmounts ==
    [][ \A i \in 1..Len(reports) :
           (reports[i].is_applied = 0 /\ reports'[i].is_applied = 1)
              => LET pid == reports[i].period_id
                     uid == reports[i].user_id
                     rows == { c \in commissions' : c.period_id = pid /\ c.source_user_id = uid }
                 IN \E a \in PayableRows(payables, pid, uid) :
                    \E b \in PayableRows(payables', pid, uid) :
                       IF a.status # PAID /\ b.status = PAID
                       THEN /\ \A c \in rows : c.funding_status = FUNDED
                            /\ \A ben \in { c.beneficiary_user_id : c \in rows } :
                                  \E e \in NewLedgerEntries :
                                     /\ e.entry_type = "COMMISSION_LOCKED_IN"
                                     /\ e.user_id = ben
                                     /\ e.ref_source_user_id = uid
                                     /\ e.delta_locked_coins
                                           = SumAmountCoins({ c \in rows :
                                                                c.beneficiary_user_id = ben })
                       ELSE /\ wallet_ledger' = wallet_ledger
                            /\ wallet_accounts' = wallet_accounts
                            /\ \A c \in rows : c.funding_status = UNFUNDED ]_vars

(* ---------------- commission repair ---------------- *)
\* what one repair run of period pid makes of a commission table
RepairOnce(comms, pid) == InsertIgnore(comms, CommissionInsertRows(pid, incomes))

\* C28: generateCommissionsOnly(period) leaves every UserIncome and UserPayable row alone,
\* keeps every existing commission row as it is (amount, fundingStatus, isUnlocked), adds
\* only rows whose key (period, source, beneficiary, level) was absent, and a second run
\* changes nothing more; the same holds when the repair is run on the table with any of
\* its rows lost, where it puts back the rows the income rows call for.
C28_RepairIdempotent ==
    /\ [][ \A pid \in PeriodIds :
              generate_commissions_for_period(pid) =>
                 /\ incomes' = incomes /\ payables' = payables
                 /\ commissions \subseteq commissions'
                 /\ \A d \in commissions' \ commissions :
                       ~ \E c \in commissions : CommKey(c) = CommKey(d)
                 /\ RepairOnce(commissions', pid) = commissions' ]_vars
    /\ [] (\A pid \in PeriodIds : \A sub \in SUBSET commissions :
              LET once == RepairOnce(sub, pid)
              IN /\ sub \subseteq once
                 /\ RepairOnce(once, pid) = once
                 /\ \A d \in once \ sub : /\ ~ \E c \in sub : CommKey(c) = CommKey(d)
                                          /\ d.period_id = pid
                 /\ \A x \in incomes :
                       (x.period_id = pid /\ x.l1_user_id # NULL /\ x.l1_commission_coins > 0)
                          => \E d \in once : CommKey(d) = << pid, x.user_id, x.l1_user_id, 1 >>)

\* a generated period with a commission row already funded and another still unfunded:
\* the repair has rows to preserve and a row it would put back if lost
C28_Witness ==
    \E c \in commissions : \E d \in commissions :
       /\ c.period_id = d.period_id
       /\ c.funding_status = FUNDED /\ c.amount_coins > 0
       /\ d.funding_status = UNFUNDED /\ d.amount_coins > 0
       /\ RepairOnce(commissions \ {d}, d.period_id) = commissions

(* ---------------- the funding cascade of a confirmation ---------------- *)
\* the entries the step appended for user uid with entry type ty
NewEntriesOf(uid, ty) ==
    { k \in (Len(wallet_ledger) + 1)..Len(wallet_ledger') :
         wallet_ledger'[k].user_id = uid /\ wallet_ledger'[k].entry_type = ty }

CompleteGeneration(pid) ==
    /\ \E p \in PeriodRows(pid) : p.status = PAYING
    /\ \E s \in snapshots : s.period_id = pid
    /\ \A x \in incomes : x.period_id = pid =>
          /\ PayableRows(payables, pid, x.user_id) # {}
          /\ \E s \in snapshots : s.period_id = pid /\ s.user_id = x.user_id
          /\ \A level \in {1, 2} :
                (InviterAt(x, level) # NULL /\ CommissionAt(x, level) > 0)
                   => \E c \in commissions :
                         CommKey(c) = << pid, x.user_id, InviterAt(x, level), level >>
    /\ \A y \in payables : y.period_id = pid => IncomeRows(pid, y.user_id) # {}
    /\ \A c \in commissions : c.period_id = pid =>
          \E x \in IncomeRows(pid, c.source_user_id) :
             InviterAt(x, c.level) = c.beneficiary_user_id

C35_PaidNeverExceedsDue ==
    (\A r \in 1..Len(reports) : reports[r].is_applied = 0)
       => \A y \in payables : y.amount_paid_coins <= y.amount_due_coins

\* the sum of amountCoins over the CONFIRMED payments of (period, payer)
ConfirmedSum(pid, uid) ==
    SumAmountCoins({ [payment_id |-> i, amount_coins |-> payments[i].amount_coins]
                     : i \in { k \in 1..Len(payments) : /\ payments[k].period_id = pid
                                                        /\ payments[k].payer_user_id = uid
                                                        /\ payments[k].status = CONFIRMED } })

\* C36: in every reachable state each payable's amountPaidCoins equals the sum of
\* amountCoins over the CONFIRMED payments of its (period, payer); SUBMITTED and REJECTED
\* payments contribute nothing, and a payment always belongs to a payable row.
C36_PaidIsSumOfConfirmed ==
    /\ \A y \in payables : y.amount_paid_coins = ConfirmedSum(y.period_id, y.user_id)
    /\ \A i \in 1..Len(payments) :
          PayableRows(payables, payments[i].period_id, payments[i].payer_user_id) # {}

\* a payable with one confirmed and one rejected payment: only the confirmed one counts
C36_Witness ==
    \E i \in 1..Len(payments) : \E j \in 1..Len(payments) :
       /\ payments[i].status = CONFIRMED /\ payments[j].status = REJECTED
       /\ payments[i].period_id = payments[j].period_id
       /\ payments[i].payer_user_id = payments[j].payer_user_id
       /\ \E y \in PayableRows(payables, payments[i].period_id, payments[i].payer_user_id) :
             y.amount_paid_coins = payments[i].amount_coins

\* C37: PAID is absorbing for a payable: on every step (confirm, ban application, a new
\* day past the pay window, or any other operation) a payable that is PAID and still
\* exists stays PAID and keeps its paidAt; a PAID payable always carries a paidAt.
C37_PaidIsAbsorbing ==
    /\ [] (\A y \in payables : y.status = PAID => y.paid_at # NULL)
    /\ [][ \A y \in payables : \A z \in payables' :
              (y.status = PAID /\ z.period_id = y.period_id /\ z.user_id = y.user_id)
                 => z.status = PAID /\ z.paid_at = y.paid_at ]_vars

\* a payable that became PAID in second 1 and has had a further payment confirmed on it,
\* seen in second 2 after its pay window has ended
C37_Witness ==
    \E y \in payables : \E p \in PeriodRows(y.period_id) :
       /\ y.status = PAID /\ y.paid_at = 1 /\ now = 2
       /\ y.amount_paid_coins > y.amount_due_coins /\ y.amount_due_coins > 0
       /\ today > p.pay_end

(* ---------------- wallets and commission rows ---------------- *)
\* the sum of amountCoins over the FUNDED commission rows of beneficiary uid with
\* isUnlocked = unlocked
FundedSum(uid, unlocked) ==
    SumAmountCoins({ c \in commissions : /\ c.beneficiary_user_id = uid
                                         /\ c.funding_status = FUNDED
                                         /\ c.is_unlocked = unlocked })

\* C38: in every reachable state each user's lockedCoins equals the sum of amountCoins
\* over the commission rows that name the user as beneficiary and are FUNDED and not
\* unlocked, availableCoins equals the sum over the unlocked ones, and neither balance is
\* negative.
C38_WalletEqualsFundedCommissions ==
    \A uid \in Users :
       /\ LockedOf(uid) = FundedSum(uid, 0)
       /\ AvailableOf(uid) = FundedSum(uid, 1)
       /\ LockedOf(uid) >= 0 /\ AvailableOf(uid) >= 0

\* C39: in every reachable state a payable with amountDueCoins <= 0 or amountPaidCoins >=
\* amountDueCoins has status PAID, directly after generation too.
C39_NothingOwedIsPaid ==
    \A y \in payables :
       (y.amount_due_coins <= 0 \/ y.amount_paid_coins >= y.amount_due_coins)
          => y.status = PAID

(* ---------------- periods created CLOSED ---------------- *)
\* POST /settlement-periods bodies, one of them with status 2 (CLOSED)
ClosedPeriodRequests ==
    { [period_start |-> 1, period_end |-> 1, pay_start |-> 1, pay_end |-> 1,
       host_bps |-> 6000, collect_bps |-> 4000, l1_bps |-> 2000, l2_bps |-> 400,
       status |-> CLOSED],
      [period_start |-> 2, period_end |-> 2, pay_start |-> 2, pay_end |-> 2,
       host_bps |-> 6000, collect_bps |-> 4000, l1_bps |-> 2000, l2_bps |-> 400,
       status |-> PAYING] }

NextClosed ==
    \/ \E data \in ClosedPeriodRequests : create_settlement_period(data)
    \/ \E pid \in PeriodIds : activate_settlement_period(pid)
    \/ \E pid \in PeriodIds : delete_settlement_period(pid)
    \/ \E pid \in PeriodIds : \E regenerate \in BOOLEAN :
          generate_settlement_for_period(pid, regenerate)
    \/ \E pid \in PeriodIds : generate_commissions_for_period(pid)
    \/ \E uid \in GraphPayers : \E pid \in PeriodIds \cup {NULL} :
          \E amount \in GraphPayAmounts : create_settlement_payment(uid, pid, amount)
    \/ \E i \in 1..MaxPayments : confirm_settlement_payment(i)
    \/ \E i \in 1..MaxPayments : reject_settlement_payment(i)
    \/ \E pid \in PeriodIds : \E bid \in Users \cup {NULL} : unlock_commissions(pid, bid)
    \/ \E uid \in Users : \E pid \in PeriodIds \cup {NULL} : \E banned \in BanAmounts :
          create_settlement_ban_report(uid, pid, banned)
    \/ \E i \in 1..MaxReports : approve_settlement_ban_report(i)
    \/ \E i \in 1..MaxReports : reject_settlement_ban_report(i)
    \/ \E i \in 1..MaxReports : apply_settlement_ban_report(i)
    \/ NextDay
    \/ NextSecond

SpecClosed == Init /\ [][NextClosed]_vars

\* C40: CLOSED is terminal for a period: on every step a period whose status is CLOSED
\* and that still exists keeps that status, a period created CLOSED and a generate call
\* on it included.
C40_ClosedIsTerminal ==
    [][ \A p \in periods : \A q \in periods' :
           (p.status = CLOSED /\ q.period_id = p.period_id) => q.status = CLOSED ]_vars

(* ======================= concurrent requests ======================= *)
(* Each request runs in its own session and transaction (get_db). The steps below are   *)
(* the SQL statements of the handlers; a statement that locks rows waits while another  *)
(* transaction holds one of them, and the locks are released at commit or rollback.     *)

\* the row locks held by the transactions other than t
HeldByOthers(t) == UNION { txns[u].locks : u \in TxnIds \ {t} }

\* the commission and wallet rows as a statement of t sees them: the committed rows,
\* overlaid with the rows t itself has written
ViewComms(t) ==
    { c \in commissions : ~ \E w \in txns[t].raw_comms : CommKey(w) = CommKey(c) }
       \cup txns[t].raw_comms

ViewWallet(t) ==
    { a \in wallet_accounts : ~ \E w \in txns[t].raw_wallet : w.user_id = a.user_id }
       \cup txns[t].raw_wallet

\* the payable rows as the session of t holds them (loaded objects carry their changes)
SessionPayables(t) ==
    { y \in payables : ~ \E w \in txns[t].orm_payables :
                            w.period_id = y.period_id /\ w.user_id = y.user_id }
       \cup txns[t].orm_payables

\* the commission amounts assigned on ORM objects by apply_settlement_ban_report
OrmComms(t, comms) ==
    IF txns[t].orm_incomes = {} THEN comms
    ELSE LET inc == CHOOSE x \in txns[t].orm_incomes : TRUE
         IN CommissionRewrite(
                CommissionRewrite(comms, inc.period_id, inc.user_id, inc.l1_user_id, 1,
                                  inc.l1_commission_coins),
                inc.period_id, inc.user_id, inc.l2_user_id, 2, inc.l2_commission_coins)

\* the transaction record x of t after its statements have left the tables st
WithWrites(x, st) ==
    [x EXCEPT !.raw_comms = { c \in st.commissions : c \notin commissions },
              !.raw_wallet = { a \in st.wallet_accounts : a \notin wallet_accounts },
              !.raw_ledger = SubSeq(st.wallet_ledger, Len(wallet_ledger) + 1,
                                    Len(st.wallet_ledger))]

\* db.rollback() after an exception: nothing of the transaction remains
RolledBack(x) == [IdleTxn EXCEPT !.op = x.op, !.arg = x.arg, !.pc = "aborted"]

\* the rows (period, source) with funding_status = 0 that the funding UPDATE locks
FundLocks(t) ==
    { << "comm", CommKey(c) >> :
         c \in { r \in ViewComms(t) : /\ r.period_id = txns[t].period_id
                                     /\ r.source_user_id = txns[t].source_user_id
                                     /\ r.funding_status = UNFUNDED } }

\* the rows the two SELECT ... FOR UPDATE of the commission rewrite lock
RewriteLocks(t) ==
    { << "comm", CommKey(c) >> :
         c \in { r \in commissions :
                   /\ r.period_id = txns[t].period_id
                   /\ r.source_user_id = txns[t].source_user_id
                   /\ \E inc \in IncomeRows(r.period_id, r.source_user_id) :
                         \/ (r.level = 1 /\ r.beneficiary_user_id = inc.l1_user_id)
                         \/ (r.level = 2 /\ r.beneficiary_user_id = inc.l2_user_id) } }

\* section 4.6: the unlock runs under row-level locking of the beneficiary's commission
\* rows of the period and of the beneficiary's wallet row
UnlockLocks(t) ==
    { << "comm", CommKey(c) >> :
         c \in { r \in ViewComms(t) : /\ r.period_id = txns[t].period_id
                                     /\ r.beneficiary_user_id = Head(txns[t].todo) } }
       \cup { << "wallet", Head(txns[t].todo) >> }

\* bug variant: the payable row is read without FOR UPDATE
PayableNoLock(x) == {}

\* .with_for_update() on the query of the payer's payable row
PayableLock(x) == { << "payable", x.period_id, x.source_user_id >> }

\* the row locks the next statement of t asks for
Needs(t) ==
    LET x == txns[t]
    IN CASE x.pc = "select_payment" -> { << "payment", x.arg >> }
         [] x.pc = "select_report" -> { << "report", x.arg >> }
         [] x.pc = "select_income" -> { << "income", x.period_id, x.source_user_id >> }
         [] x.pc = "select_payable" -> PayableLock(x)
         [] x.pc = "select_comms" -> RewriteLocks(t)
         [] x.pc = "fund" -> FundLocks(t)
         [] x.pc = "wallet" -> { << "wallet", Head(x.todo) >> }
         [] x.pc = "unlock_payable" -> { << "payable", x.period_id, Head(x.todo) >> }
         [] x.pc = "unlock_rows" -> UnlockLocks(t)
         [] OTHER -> {}

\* t is not waiting for a row lock
CanProceed(t) == Needs(t) \cap HeldByOthers(t) = {}

TxnFrame == UNCHANGED << periods, next_period_id, user_referrals, snapshots, incomes,
                         payables, commissions, payments, reports, wallet_accounts,
                         wallet_ledger, today, now >>

\* the state of t after the statement that took the locks it asked for
Locked(t, x) == [x EXCEPT !.locks = txns[t].locks \cup Needs(t)]

\* the request reaches its handler
begin_confirm(t, payment_id) ==
    /\ txns[t].pc = "idle"
    /\ payment_id \in 1..Len(payments)
    /\ txns' = [txns EXCEPT ![t] = [IdleTxn EXCEPT !.op = "confirm", !.arg = payment_id,
                                                   !.pc = "select_payment"]]
    /\ TxnFrame

\* SELECT ... FROM settlement_payments WHERE id = :id FOR UPDATE, and the status check
confirm_select_payment(t) ==
    LET x == txns[t]
        payment == payments[x.arg]
    IN /\ x.op = "confirm" /\ x.pc = "select_payment"
       /\ CanProceed(t)
       /\ txns' = [txns EXCEPT ![t] =
             IF ~ PaymentIsSubmitted(payment)
             THEN RolledBack(x)
             ELSE [Locked(t, x) EXCEPT !.period_id = payment.period_id,
                                       !.source_user_id = payment.payer_user_id,
                                       !.pc = "select_payable"]]
       /\ TxnFrame

\* SELECT ... FROM settlement_user_payables ... FOR UPDATE, then the assignments on the
\* payment and the payable objects up to just_paid
confirm_select_payable(t) ==
    LET x == txns[t]
        payment == payments[x.arg]
        rows == PayableRows(payables, x.period_id, x.source_user_id)
    IN /\ x.op = "confirm" /\ x.pc = "select_payable"
       /\ CanProceed(t)
       /\ txns' = [txns EXCEPT ![t] =
             IF rows = {} \/ PeriodRows(x.period_id) = {}
             THEN RolledBack(x)
             ELSE LET payable == CHOOSE y \in rows : TRUE
                      period == CHOOSE p \in PeriodRows(x.period_id) : TRUE
                      payable1 == ConfirmedPayable(payment, payable, period)
                  IN [Locked(t, x) EXCEPT
                        !.orm_payments = {x.arg},
                        !.orm_payables = {payable1},
                        !.read_view = payables,
                        !.prev_status = payable.status,
                        !.pc = IF just_paid(payable.status, payable1.status)
                               THEN "fund" ELSE "commit"]]
       /\ TxnFrame

\* the beneficiaries of the batch, then the payer: the calls of the unlock stage
UnlockCalls(t) ==
    LET x == txns[t]
        batch == FundedBatch(ViewComms(t), x.period_id, x.source_user_id, now)
    IN SelectSeq(SetToSeq({ c.beneficiary_user_id : c \in batch }), LAMBDA b : b > 0)
          \o << x.source_user_id >>

\* UPDATE settlement_commissions SET funding_status = 1 ..., and the INSERT ... SELECT
\* of the COMMISSION_LOCKED_IN ledger rows
fund(t) ==
    LET x == txns[t]
        comms1 == FundUpdate(ViewComms(t), x.period_id, x.source_user_id, now)
        batch == FundedBatch(comms1, x.period_id, x.source_user_id, now)
        bens == SetToSeq({ c.beneficiary_user_id : c \in batch })
        st == [commissions |-> comms1,
               wallet_ledger |-> (wallet_ledger \o x.raw_ledger)
                                    \o LockedInEntries(batch, x.period_id,
                                                       x.source_user_id, bens),
               wallet_accounts |-> ViewWallet(t)]
    IN /\ x.pc = "fund"
       /\ CanProceed(t)
       /\ txns' = [txns EXCEPT ![t] =
             [WithWrites(Locked(t, x), st) EXCEPT
                !.todo = IF bens = << >> THEN << x.source_user_id >> ELSE bens,
                !.pc = IF bens = << >> THEN "unlock_payable" ELSE "wallet"]]
       /\ TxnFrame

\* INSERT INTO wallet_accounts ... ON DUPLICATE KEY UPDATE, one beneficiary row at a time
wallet(t) ==
    LET x == txns[t]
        batch == FundedBatch(ViewComms(t), x.period_id, x.source_user_id, now)
        st == [commissions |-> ViewComms(t),
               wallet_ledger |-> wallet_ledger \o x.raw_ledger,
               wallet_accounts |-> LockedInAccounts(ViewWallet(t), batch,
                                                    << Head(x.todo) >>)]
    IN /\ x.pc = "wallet"
       /\ CanProceed(t)
       /\ txns' = [txns EXCEPT ![t] =
             [WithWrites(Locked(t, x), st) EXCEPT
                !.todo = IF Tail(x.todo) = << >> THEN UnlockCalls(t) ELSE Tail(x.todo),
                !.pc = IF Tail(x.todo) = << >> THEN "unlock_payable" ELSE "wallet"]]
       /\ TxnFrame

\* bug variant: the beneficiary's payable is read without a lock, from the read view
\* the transaction opened with its first plain SELECT (REPEATABLE READ)
UnlockReadView(t) ==
    LET seen == IF txns[t].op = "unlock" THEN payables ELSE txns[t].read_view
    IN { y \in seen : ~ \E w \in txns[t].orm_payables :
                          w.period_id = y.period_id /\ w.user_id = y.user_id }
          \cup txns[t].orm_payables

\* section 4.6: the unlock reads the beneficiary's payable under the per-(period, user)
\* lock, that is the committed row, or the session's own object
UnlockRead(t) == SessionPayables(t)

\* the transaction record after one call of unlock_commissions_for_beneficiary returned
AfterUnlockCall(x) ==
    [x EXCEPT !.todo = Tail(x.todo),
              !.pc = IF Tail(x.todo) = << >> THEN "commit" ELSE "unlock_payable"]

\* unlock_commissions_for_beneficiary, first half (section 4.6): the per-(period, user)
\* lock, taken on the beneficiary's payable row, and the check that it is PAID
unlock_payable(t) ==
    LET x == txns[t]
        own == PayableRows(UnlockRead(t), x.period_id, Head(x.todo))
    IN /\ x.pc = "unlock_payable"
       /\ CanProceed(t)
       /\ txns' = [txns EXCEPT ![t] =
             IF own = {} \/ (\E y \in own : y.status # PAID)
             THEN AfterUnlockCall(Locked(t, x))
             ELSE [Locked(t, x) EXCEPT !.pc = "unlock_rows"]]
       /\ TxnFrame

\* unlock_commissions_for_beneficiary, second half (section 4.6): the rows that are
\* FUNDED and not unlocked are marked, the ledger row written and the balance moved
unlock_rows(t) ==
    LET x == txns[t]
        st == unlock_commissions_for_beneficiary(
                  [commissions |-> OrmComms(t, ViewComms(t)),
                   wallet_ledger |-> wallet_ledger \o x.raw_ledger,
                   wallet_accounts |-> ViewWallet(t)],
                  UnlockRead(t), x.period_id, Head(x.todo))
    IN /\ x.pc = "unlock_rows"
       /\ CanProceed(t)
       /\ txns' = [txns EXCEPT ![t] = AfterUnlockCall(WithWrites(Locked(t, x), st))]
       /\ TxnFrame

\* POST /settlement-periods/{period_id}/unlock-commissions?beneficiary_user_id=
begin_unlock(t, pid, bid) ==
    LET everyone == SetToSeq({ c.beneficiary_user_id :
                                   c \in { r \in commissions : r.period_id = pid } })
        calls == IF bid # NULL THEN << bid >> ELSE everyone
    IN /\ txns[t].pc = "idle"
       /\ PeriodRows(pid) # {}
       /\ txns' = [txns EXCEPT ![t] =
             [IdleTxn EXCEPT !.op = "unlock", !.arg = bid, !.period_id = pid,
                             !.todo = calls,
                             !.pc = IF calls = << >> THEN "commit" ELSE "unlock_payable"]]
       /\ TxnFrame

\* db.commit(): the session is flushed, the rows written become the committed rows and
\* the row locks are released
commit(t) ==
    LET x == txns[t]
    IN /\ x.pc = "commit"
       /\ payments' = [i \in 1..Len(payments) |->
                         IF i \in x.orm_payments
                         THEN [payments[i] EXCEPT !.status = CONFIRMED] ELSE payments[i]]
       /\ payables' = SessionPayables(t)
       /\ incomes' = { y \in incomes : ~ \E w \in x.orm_incomes :
                                            w.period_id = y.period_id /\ w.user_id = y.user_id }
                        \cup x.orm_incomes
       /\ reports' = [i \in 1..Len(reports) |->
                        IF \E w \in x.orm_reports : w.id = i
                        THEN (CHOOSE w \in x.orm_reports : w.id = i).row ELSE reports[i]]
       /\ commissions' = OrmComms(t, ViewComms(t))
       /\ wallet_accounts' = ViewWallet(t)
       /\ wallet_ledger' = wallet_ledger \o x.raw_ledger
       /\ txns' = [txns EXCEPT ![t] = [IdleTxn EXCEPT !.op = x.op, !.arg = x.arg,
                                                      !.pc = "committed"]]
       /\ UNCHANGED << periods, next_period_id, user_referrals, snapshots, today, now >>

\* bug variant: the database neither detects deadlocks nor limits the wait for a lock
lock_wait_forever(t) == FALSE /\ UNCHANGED vars

\* a statement that waits for a row lock fails with a database error (deadlock found,
\* lock wait timeout exceeded): "except Exception: db.rollback(); raise"
lock_wait_error(t) ==
    /\ txns[t].pc \notin {"idle", "committed", "aborted"}
    /\ ~ CanProceed(t)
    /\ txns' = [txns EXCEPT ![t] = RolledBack(txns[t])]
    /\ TxnFrame

\* the report, income and payable objects as apply_settlement_ban_report leaves them in
\* the session
Deducted(report, period, income, payable) ==
    LET old_gross == income.gross_coins
        banned == report.banned_coins
        deduct_gross == IF banned < old_gross THEN banned ELSE old_gross
        new_gross == old_gross - deduct_gross
        new_self_keep == BpsShare(new_gross, period.host_bps)
        new_due == BpsShare(new_gross, period.collect_bps)
        new_l1 == IF income.l1_user_id # NULL THEN BpsShare(new_gross, period.l1_bps) ELSE 0
        new_l2 == IF income.l2_user_id # NULL THEN BpsShare(new_gross, period.l2_bps) ELSE 0
        new_platform == NewPlatform(new_due, new_l1, new_l2)
        new_status == ApplyStatus(new_due, payable.amount_paid_coins, today, period.pay_end)
    IN [report |-> [report EXCEPT
            !.deduct_gross_coins = old_gross - new_gross,
            !.deduct_self_keep_coins = income.self_keep_coins - new_self_keep,
            !.deduct_due_coins = income.self_payable_coins - new_due,
            !.deduct_l1_commission_coins = income.l1_commission_coins - new_l1,
            !.deduct_l2_commission_coins = income.l2_commission_coins - new_l2,
            !.deduct_platform_retain_coins = income.platform_retain_coins - new_platform,
            !.is_applied = 1],
        income |-> [income EXCEPT
            !.gross_coins = new_gross,
            !.self_keep_coins = new_self_keep,
            !.self_payable_coins = new_due,
            !.l1_commission_coins = new_l1,
            !.l2_commission_coins = new_l2,
            !.platform_retain_coins = new_platform],
        payable |-> [payable EXCEPT
            !.amount_due_coins = new_due,
            !.status = new_status,
            !.paid_at = PaidAt(payable.paid_at, new_status, now)]]

begin_apply(t, report_id) ==
    /\ txns[t].pc = "idle"
    /\ report_id \in 1..Len(reports)
    /\ txns' = [txns EXCEPT ![t] = [IdleTxn EXCEPT !.op = "apply", !.arg = report_id,
                                                   !.pc = "select_report"]]
    /\ TxnFrame

\* SELECT ... FROM settlement_ban_reports WHERE id = :id FOR UPDATE, and the two
\* refusals on the report
apply_select_report(t) ==
    LET x == txns[t]
        report == reports[x.arg]
    IN /\ x.op = "apply" /\ x.pc = "select_report"
       /\ CanProceed(t)
       /\ txns' = [txns EXCEPT ![t] =
             IF ~ ReportMayBeApplied(report)
             THEN RolledBack(x)
             ELSE [Locked(t, x) EXCEPT !.period_id = report.period_id,
                                       !.source_user_id = report.user_id,
                                       !.pc = "guards"]]
       /\ TxnFrame

\* the period check and the two funding checks: SELECTs without FOR UPDATE, which take
\* no lock and read the committed rows
apply_guards(t) ==
    LET x == txns[t]
    IN /\ x.op = "apply" /\ x.pc = "guards"
       /\ txns' = [txns EXCEPT ![t] =
             IF \/ PeriodRows(x.period_id) = {}
                \/ \E p \in PeriodRows(x.period_id) : p.status = CLOSED
                \/ FundingHasStarted(x.period_id, x.source_user_id)
             THEN RolledBack(x)
             ELSE [x EXCEPT !.pc = "select_income", !.read_view = payables]]
       /\ TxnFrame

\* SELECT ... FROM settlement_user_income ... FOR UPDATE
apply_select_income(t) ==
    LET x == txns[t]
    IN /\ x.op = "apply" /\ x.pc = "select_income"
       /\ CanProceed(t)
       /\ txns' = [txns EXCEPT ![t] =
             IF IncomeRows(x.period_id, x.source_user_id) = {}
             THEN RolledBack(x)
             ELSE [Locked(t, x) EXCEPT !.pc = "select_payable"]]
       /\ TxnFrame

\* SELECT ... FROM settlement_user_payables ... FOR UPDATE, then the recomputation and
\* the assignments on the report, income and payable objects
apply_select_payable(t) ==
    LET x == txns[t]
        rows == PayableRows(payables, x.period_id, x.source_user_id)
    IN /\ x.op = "apply" /\ x.pc = "select_payable"
       /\ CanProceed(t)
       /\ txns' = [txns EXCEPT ![t] =
             IF rows = {}
             THEN RolledBack(x)
             ELSE LET payable == CHOOSE y \in rows : TRUE
                      income == CHOOSE y \in IncomeRows(x.period_id, x.source_user_id) : TRUE
                      period == CHOOSE p \in PeriodRows(x.period_id) : TRUE
                      report == reports[x.arg]
                      d == Deducted(report, period, income, payable)
                  IN IF income.gross_coins <= 0 \/ report.banned_coins <= 0
                     THEN RolledBack(x)
                     ELSE [Locked(t, x) EXCEPT
                             !.orm_reports = { [id |-> x.arg, row |-> d.report] },
                             !.orm_incomes = { d.income },
                             !.orm_payables = { d.payable },
                             !.prev_status = payable.status,
                             !.pc = "select_comms"]]
       /\ TxnFrame

\* the two SELECT ... FROM settlement_commissions ... FOR UPDATE and the assignments of
\* the new amounts, report.is_applied = 1 and just_paid
apply_select_comms(t) ==
    LET x == txns[t]
        payable1 == CHOOSE y \in x.orm_payables : TRUE
    IN /\ x.op = "apply" /\ x.pc = "select_comms"
       /\ CanProceed(t)
       /\ txns' = [txns EXCEPT ![t] =
             [Locked(t, x) EXCEPT
                !.pc = IF just_paid(x.prev_status, payable1.status)
                       THEN "fund" ELSE "commit"]]
       /\ TxnFrame

\* the database the concurrent requests start from: one period, created with the pay
\* window [1, 1] and generated; two payments submitted by users 1 and 2; no ban report,
\* or one approved report on user 1
ScenarioPeriod ==
    [period_id |-> 1, period_start |-> 1, period_end |-> 1, pay_start |-> 1, pay_end |-> 1,
     host_bps |-> 6000, collect_bps |-> 4000, l1_bps |-> 2000, l2_bps |-> 400,
     status |-> PAYING, is_active |-> 0]

ScenarioPayments ==
    { [period_id |-> 1, payer_user_id |-> 1, amount_coins |-> 5, status |-> SUBMITTED],
      [period_id |-> 1, payer_user_id |-> 1, amount_coins |-> 10, status |-> SUBMITTED],
      [period_id |-> 1, payer_user_id |-> 2, amount_coins |-> 5, status |-> SUBMITTED] }

ScenarioReport ==
    [period_id |-> 1, user_id |-> 1, banned_coins |-> 15, status |-> APPROVED,
     is_applied |-> 0, deduct_gross_coins |-> NULL, deduct_self_keep_coins |-> NULL,
     deduct_due_coins |-> NULL, deduct_l1_commission_coins |-> NULL,
     deduct_l2_commission_coins |-> NULL, deduct_platform_retain_coins |-> NULL]

InitTxn ==
    /\ txns = [t \in TxnIds |-> IdleTxn]
    /\ periods = { ScenarioPeriod }
    /\ next_period_id = 2
    /\ user_referrals = ReferralRows
    /\ snapshots = SnapshotInsertRows(1)
    /\ incomes = IncomeInsertRows(ScenarioPeriod, snapshots)
    /\ payables = PayableInsertRows(1, incomes)
    /\ commissions = CommissionInsertRows(1, incomes)
    /\ \E a \in ScenarioPayments : \E b \in ScenarioPayments : payments = << a, b >>
    /\ reports \in { << >>, << ScenarioReport >> }
    /\ wallet_accounts = {}
    /\ wallet_ledger = << >>
    /\ today = 1
    /\ now = 1

\* the next statement of the request t
TxnStep(t) ==
    \/ confirm_select_payment(t)
    \/ confirm_select_payable(t)
    \/ apply_select_report(t)
    \/ apply_guards(t)
    \/ apply_select_income(t)
    \/ apply_select_payable(t)
    \/ apply_select_comms(t)
    \/ fund(t)
    \/ wallet(t)
    \/ unlock_payable(t)
    \/ unlock_rows(t)
    \/ commit(t)

NextTxn ==
    \E t \in TxnIds :
      \/ \E payment_id \in 1..MaxPayments : begin_confirm(t, payment_id)
      \/ \E report_id \in 1..MaxReports : begin_apply(t, report_id)
      \/ \E bid \in {NULL} \cup Users : begin_unlock(t, 1, bid)
      \/ TxnStep(t)
      \/ lock_wait_error(t)

SpecTxn == InitTxn /\ [][NextTxn]_vars

(* ---------------- claims about concurrent requests ---------------- *)
\* the positions of the COMMISSION_LOCKED_IN ledger rows of (source, beneficiary)
LockedInRows(src, ben) ==
    { i \in 1..Len(wallet_ledger) : /\ wallet_ledger[i].entry_type = "COMMISSION_LOCKED_IN"
                                    /\ wallet_ledger[i].ref_source_user_id = src
                                    /\ wallet_ledger[i].user_id = ben }

\* the requests of the behaviour are confirmations and unlocks only
NoApplyRequest == \A t \in TxnIds : txns[t].op # "apply"

\* C31: whatever the interleaving of concurrent confirmations (of one payment, or of two
\* SUBMITTED payments of one payer and period), the committed amountPaidCoins is the sum
\* of the CONFIRMED payments (each added once, none lost), the funding of a (period,
\* payer) is written at most once and has been written when the payable is PAID, and each
\* beneficiary's balances equal the amounts of its funded commission rows.
C31_ConcurrentConfirms ==
    NoApplyRequest =>
       /\ \A y \in payables : y.amount_paid_coins = ConfirmedSum(y.period_id, y.user_id)
       /\ \A src \in Users : \A ben \in Users :
             /\ Cardinality(LockedInRows(src, ben)) <= 1
             /\ \A c \in commissions :
                   (c.source_user_id = src /\ c.beneficiary_user_id = ben)
                      => /\ (c.funding_status = FUNDED) = (LockedInRows(src, ben) # {})
                         /\ \A i \in LockedInRows(src, ben) :
                               wallet_ledger[i].delta_locked_coins = c.amount_coins
                         /\ (\E y \in PayableRows(payables, c.period_id, src) :
                                y.status = PAID) => c.funding_status = FUNDED
       /\ \A uid \in Users : /\ LockedOf(uid) = FundedSum(uid, 0)
                             /\ AvailableOf(uid) = FundedSum(uid, 1)

\* two concurrent confirmations of the two 5-coin payments of user 1 have both committed:
\* 10 coins are paid and the commissions of user 1 are funded
C31_Witness ==
    /\ \A t \in TxnIds : txns[t].op = "confirm" /\ txns[t].pc = "committed"
    /\ txns[1].arg # txns[2].arg
    /\ \A i \in 1..Len(payments) :
          /\ payments[i].payer_user_id = 1 /\ payments[i].amount_coins = 5
          /\ payments[i].status = CONFIRMED
    /\ \E y \in PayableRows(payables, 1, 1) : y.amount_paid_coins = 10 /\ y.status = PAID
    /\ LockedInRows(1, 2) # {}

\* C32: whatever the interleaving of a confirmation of a payment of user U and the
\* application of a ban report on U, the committed result is that of one of the two serial
\* orders: no step changes the amountCoins of a commission row that is already FUNDED, or
\* the income row of its source, so the amount credited to a beneficiary stays the
\* amount of the commission row.
C32_FundedRowsKeepAmount ==
    [][ \A c \in commissions :
          c.funding_status = FUNDED
             => /\ \A d \in commissions' : CommKey(d) = CommKey(c)
                                              => d.amount_coins = c.amount_coins
                /\ IncomeRows(c.period_id, c.source_user_id)
                      = IncomeRows(c.period_id, c.source_user_id)' ]_vars

\* both requests are confirmations, of payments of different payers, and have committed
BothConfirmed ==
    /\ \A t \in TxnIds : txns[t].op = "confirm" /\ txns[t].pc = "committed"
    /\ payments[txns[1].arg].payer_user_id # payments[txns[2].arg].payer_user_id

\* C33: when the confirmations of the final payments of U and of A, a beneficiary of U,
\* run concurrently, then in every interleaving, once both have committed, the commission
\* of A from U is unlocked exactly once: it is not left FUNDED and locked, and the
\* available and locked balances of A equal the amounts of its unlocked and locked rows.
C33_UnlockedExactlyOnce ==
    BothConfirmed =>
       /\ \A c \in commissions :
             (/\ c.funding_status = FUNDED
              /\ \E y \in PayableRows(payables, c.period_id, c.beneficiary_user_id) :
                    y.status = PAID)
                => c.is_unlocked = 1
       /\ \A uid \in Users : /\ AvailableOf(uid) = FundedSum(uid, 1)
                             /\ LockedOf(uid) = FundedSum(uid, 0)
       /\ \A uid \in Users :
             Cardinality({ i \in 1..Len(wallet_ledger) :
                              /\ wallet_ledger[i].entry_type = "COMMISSION_UNLOCK"
                              /\ wallet_ledger[i].user_id = uid
                              /\ wallet_ledger[i].delta_available_coins > 0 }) <= 1

\* user 1 paid its 10 coins and user 2, its level-1 beneficiary, paid its 5 coins, in
\* concurrent confirmations: the 5 coins of the row 1 -> 2 are available to user 2
C33_Witness ==
    /\ BothConfirmed
    /\ \A y \in payables : y.status = PAID
    /\ \E c \in commissions : /\ c.source_user_id = 1 /\ c.beneficiary_user_id = 2
                              /\ c.funding_status = FUNDED /\ c.is_unlocked = 1
                              /\ c.amount_coins = 5
    /\ AvailableOf(2) = 5 /\ LockedOf(2) = 0

\* every request runs its next statement when that statement can run; a statement that
\* keeps waiting for a row lock fails (InnoDB deadlock detection, lock wait timeout)
FairTxn ==
    /\ SpecTxn
    /\ \A t \in TxnIds : WF_vars(TxnStep(t)) /\ WF_vars(lock_wait_error(t))

TxnEnded(t) == txns[t].pc \in {"committed", "aborted"}

====
